---- MODULE Spec2Model ----
(***************************************************************************)
(* A model of the RustVM stack machine (src/src/vm.rs): the dispatch loop  *)
(* of VirtualMachine::interpret, the value coercions, variable references  *)
(* and branch-address resolution.                                          *)
(*                                                                         *)
(* Modelling conventions                                                   *)
(*  - A Rust String is a sequence of one-character strings.                *)
(*  - A VariableIdentifier (a SipHash of the lowercased name) is modelled  *)
(*    by the lowercased name itself: the hash is taken to be injective.    *)
(*  - An f32 is modelled on its integer-valued part: the number itself,    *)
(*    rounded to the 24-bit significand (ties to even) wherever the code   *)
(*    produces an f32.  Float literals of the model are integers.          *)
(*  - usize is modelled modulo UsizeModulus (TLC's integers are 32 bits    *)
(*    wide).  Every instruction sequence is far shorter than the modulus,  *)
(*    so a wrapped counter lies beyond the end of any sequence, as it does *)
(*    with 64 bits.                                                        *)
(*  - A RawValue and a SystemValue are records with the same fields for    *)
(*    every variant (the unused ones hold a default), so that any two      *)
(*    values can be compared.                                              *)
(***************************************************************************)
EXTENDS Integers, Sequences, FiniteSets, TLC

VARIABLES
    build,      \* "debug" or "release": whether integer overflow panics or wraps
    features,   \* the cargo features compiled in (a subset of {"fault-checks"})
    ops,        \* instructions.ops of the running interpret call
    pc,         \* current_index
    stack,      \* frame.stack, the last element is the top
    locals,     \* frame.locals
    globals,    \* vm.globals
    status,     \* "running", "ok" (Ok(())), "err" (Err(..)) or "panic"
    error,      \* the Err description, or what the panic was
    trace,      \* history: the indices of the instructions executed, in order
    root_namespace, \* vm.root_namespace
    frames,     \* the interpret calls suspended in a CallFunction, outermost first
    calls,      \* history: the invocations of native bindings, in order
    runs,       \* how many interpret calls the host has made on this machine
    entries,    \* history: the registrations that returned Ok(()), in order
    outcome,    \* what the host's last call on the root namespace returned
    threads,    \* shared mode: the frame of the interpret call of every thread
    globals_lock \* shared mode: "free", "held" for ever by a thread, or "poisoned"

vars == <<build, features, ops, pc, stack, locals, globals, status, error, trace,
          root_namespace, frames, calls, runs, entries, outcome, threads, globals_lock>>

----------------------------------------------------------------------------
(* Bounds of the model *)

\* Most interpret calls the host makes on one machine.
MaxRuns == 2

\* Longest history of native invocations that is recorded.
MaxCalls == 6

\* Most registrations the host makes on one namespace.
MaxEntries == 2

\* Largest iteration count of the counted-loop fixture run from its start.
MaxIterations == 3

\* Longest history of executed indices that is recorded.
MaxTrace == 120

----------------------------------------------------------------------------
(* Program constants *)

\* f32::MANTISSA_DIGITS: the significand of the f32 in FloatValue.
F32MantissaDigits == 24

\* The first integer an f32 cannot tell from its successor.
F32Exact == 2 ^ F32MantissaDigits

\* usize arithmetic wraps (release) or panics (debug) at this modulus.
UsizeModulus == 2 ^ 30

----------------------------------------------------------------------------
(* Strings *)

Digits == <<"0", "1", "2", "3", "4", "5", "6", "7", "8", "9">>

EmptyMap == [k \in {} |-> k]

Insert(map, key, value) ==
    [k \in DOMAIN map \cup {key} |-> IF k = key THEN value ELSE map[k]]

\* char::to_lowercase on the letters the model uses.
LowerChar(c) ==
    CASE c = "A" -> "a" [] c = "B" -> "b" [] c = "C" -> "c" [] c = "F" -> "f"
      [] c = "G" -> "g" [] c = "R" -> "r" [] c = "S" -> "s" [] c = "X" -> "x"
      [] c = "I" -> "i" [] c = "M" -> "m" [] c = "Q" -> "q" [] c = "T" -> "t"
      [] c = "U" -> "u"
      [] OTHER -> c

to_lowercase(s) == [i \in DOMAIN s |-> LowerChar(s[i])]

\* Mutant of variable_name_to_identifier: the name is hashed as it is written.
variable_name_exact(name) == name

\* util.rs: the identifier is the hash of the lowercased name.
variable_name_to_identifier(name) == to_lowercase(name)

DigitValue(c) == (CHOOSE i \in 1..10 : Digits[i] = c) - 1

IsDigit(c) == \E i \in 1..10 : Digits[i] = c

RECURSIVE NatToString(_)
NatToString(n) ==
    IF n < 10 THEN <<Digits[n + 1]>>
    ELSE NatToString(n \div 10) \o <<Digits[(n % 10) + 1]>>

\* i32::to_string, and f32::to_string of an integer-valued f32
IntToString(n) == IF n < 0 THEN <<"-">> \o NatToString(-n) ELSE NatToString(n)

RECURSIVE DigitsToNat(_)
DigitsToNat(s) ==
    IF s = <<>> THEN 0
    ELSE 10 * DigitsToNat(SubSeq(s, 1, Len(s) - 1)) + DigitValue(s[Len(s)])

\* str::parse::<i32>: an optional sign and at least one decimal digit.
\* [ok, value]; the strings of the model are short, so no overflow.
ParseInt(s) ==
    LET signed == s # <<>> /\ s[1] \in {"-", "+"}
        body == IF signed THEN Tail(s) ELSE s
    IN  IF body # <<>> /\ \A i \in DOMAIN body : IsDigit(body[i])
        THEN [ok |-> TRUE,
              value |-> IF signed /\ s[1] = "-" THEN -DigitsToNat(body)
                        ELSE DigitsToNat(body)]
        ELSE [ok |-> FALSE, value |-> 0]

----------------------------------------------------------------------------
(* f32 on integers *)

\* The spacing of the f32 values around the magnitude a.
Ulp(a) ==
    IF a < F32Exact THEN 1
    ELSE CHOOSE u \in {2 ^ e : e \in 1..6} : F32Exact * (u \div 2) <= a /\ a < F32Exact * u

\* Rounding to the nearest f32, ties to the even significand: what `as f32`
\* and every f32 operation do to the exact result.
F32Round(x) ==
    LET a == IF x < 0 THEN -x ELSE x
        u == Ulp(a)
        q == a \div u
        r == a % u
        up == (2 * r > u) \/ (2 * r = u /\ q % 2 = 1)
        m == IF up THEN (q + 1) * u ELSE q * u
    IN  IF x < 0 THEN -m ELSE m

\* str::parse::<f32> on the strings of the model (letters, digits, sign):
\* a decimal integer parses to its nearest f32, anything else fails.
ParseFloat(s) ==
    LET p == ParseInt(s)
    IN  [ok |-> p.ok, value |-> F32Round(p.value)]

----------------------------------------------------------------------------
(* Values: RawValue, VariableReference, SystemValue *)

NoRef == [scope |-> "None", value |-> <<>>]

NoRaw == [tag |-> "None", num |-> 0, str |-> <<>>, bool |-> FALSE]

Float(v) == [tag |-> "Float", num |-> v, str |-> <<>>, bool |-> FALSE]

Integer(v) == [tag |-> "Integer", num |-> v, str |-> <<>>, bool |-> FALSE]

String(s) == [tag |-> "String", num |-> 0, str |-> s, bool |-> FALSE]

Boolean(b) == [tag |-> "Boolean", num |-> 0, str |-> <<>>, bool |-> b]

\* VariableReference::Global / VariableReference::Local
Global(id) == [scope |-> "Global", value |-> id]

Local(id) == [scope |-> "Local", value |-> id]

\* SystemValue::Raw / SystemValue::Variable
Raw(r) == [sv |-> "Raw", raw |-> r, ref |-> NoRef]

Variable(ref) == [sv |-> "Variable", raw |-> NoRaw, ref |-> ref]

\* Mutant of deref: one map of variables for both scopes, the locals first.
deref_one_scope(ref, g, l) ==
    IF ref.value \in DOMAIN l THEN [ok |-> TRUE, value |-> l[ref.value]]
    ELSE IF ref.value \in DOMAIN g THEN [ok |-> TRUE, value |-> g[ref.value]]
    ELSE [ok |-> FALSE, value |-> NoRaw]

\* VariableReference::deref: [ok, value]; Err("Variable Lookup Failed") is
\* ok = FALSE.  g is vm.globals, l is frame.locals.
deref(ref, g, l) ==
    LET map == IF ref.scope = "Global" THEN g ELSE l
    IN  IF ref.value \in DOMAIN map
        THEN [ok |-> TRUE, value |-> map[ref.value]]
        ELSE [ok |-> FALSE, value |-> NoRaw]

\* SystemValue::as_raw: a failed lookup yields the empty string.
as_raw(sv, g, l) ==
    IF sv.sv = "Raw" THEN sv.raw
    ELSE LET d == deref(sv.ref, g, l)
         IN  IF d.ok THEN d.value ELSE String(<<>>)

\* SystemValue::as_variable: [ok, value]; Err("Not a Variable") is ok = FALSE.
as_variable(sv) ==
    IF sv.sv = "Variable" THEN [ok |-> TRUE, value |-> sv.ref]
    ELSE [ok |-> FALSE, value |-> NoRef]

\* RawValue::as_string
as_string(r) ==
    CASE r.tag = "Float" -> IntToString(r.num)
      [] r.tag = "Integer" -> IntToString(r.num)
      [] r.tag = "String" -> r.str
      [] r.tag = "Boolean" -> IF r.bool THEN <<"t", "r", "u", "e">>
                              ELSE <<"f", "a", "l", "s", "e">>

\* RawValue::as_float
as_float(r) ==
    CASE r.tag = "Float" -> r.num
      [] r.tag = "Integer" -> F32Round(r.num)
      [] r.tag = "String" -> LET p == ParseFloat(r.str)
                             IN  IF p.ok THEN p.value ELSE 0
      [] r.tag = "Boolean" -> IF r.bool THEN 1 ELSE 0

\* RawValue::as_integer (an integer-valued f32 truncates to itself)
as_integer(r) ==
    CASE r.tag = "Float" -> r.num
      [] r.tag = "Integer" -> r.num
      [] r.tag = "String" -> LET p == ParseInt(r.str)
                             IN  IF p.ok THEN p.value ELSE 0
      [] r.tag = "Boolean" -> IF r.bool THEN 1 ELSE 0

\* RawValue::as_boolean
as_boolean(r) ==
    CASE r.tag = "Float" -> r.num # 0
      [] r.tag = "Integer" -> r.num # 0
      [] r.tag = "String" -> LET p == ParseFloat(r.str)
                             IN  IF p.ok THEN p.value # 0 ELSE FALSE
      [] r.tag = "Boolean" -> r.bool

\* Mutant of add: the shadowed rhs is read for both operands.
add_rhs_twice(lhs, rhs) == F32Round(as_float(rhs) + as_float(rhs))

\* RawValue::add / subtract / multiply: the exact result, rounded to f32
add(lhs, rhs) == F32Round(as_float(lhs) + as_float(rhs))

subtract(lhs, rhs) == F32Round(as_float(lhs) - as_float(rhs))

multiply(lhs, rhs) == F32Round(as_float(lhs) * as_float(rhs))

\* |x|
Magnitude(x) == IF x < 0 THEN -x ELSE x

\* The quotient of two integers of which the second divides the first
ExactQuotient(l, r) ==
    IF (l < 0) = (r < 0) THEN Magnitude(l) \div Magnitude(r)
    ELSE -(Magnitude(l) \div Magnitude(r))

\* RawValue::divide, lhs / rhs in f32, on the operands whose quotient is an
\* integer (the sequences of the model divide no others: a divisor 0.0 or a
\* quotient with a fraction has no value among the floats modelled here)
divide(lhs, rhs) ==
    CASE as_float(rhs) # 0 /\ Magnitude(as_float(lhs)) % Magnitude(as_float(rhs)) = 0
           -> F32Round(ExactQuotient(as_float(lhs), as_float(rhs)))

\* i32 `%`: the remainder has the sign of the dividend (the integers of the
\* model are small: i32::MIN % -1 does not occur)
remainder(l, r) ==
    IF l < 0 THEN -(Magnitude(l) % Magnitude(r)) ELSE l % Magnitude(r)

\* Mutant of equals: the operands are compared as strings.
equals_as_strings(lhs, rhs) == as_string(lhs) = as_string(rhs)

\* RawValue::equals
equals(lhs, rhs) == as_float(lhs) = as_float(rhs)

----------------------------------------------------------------------------
(* Instructions *)

NoAddress == [kind |-> "None", value |-> 0]

\* AddressValue::AbsoluteTarget / AddressValue::RelativeOffset
Absolute(index) == [kind |-> "Absolute", value |-> index]

Relative(offset) == [kind |-> "Relative", value |-> offset]

Op(name) == [op |-> name, num |-> 0, str |-> <<>>, ref |-> NoRef, target |-> NoAddress,
             path |-> <<>>]

PushFloat(v) == [Op("PushFloat") EXCEPT !.num = v]

PushInteger(v) == [Op("PushInteger") EXCEPT !.num = v]

PushString(s) == [Op("PushString") EXCEPT !.str = s]

PushVariable(ref) == [Op("PushVariable") EXCEPT !.ref = ref]

JumpTo(address) == [Op("Jump") EXCEPT !.target = address]

JumpTrueTo(address) == [Op("JumpTrue") EXCEPT !.target = address]

JumpFalseTo(address) == [Op("JumpFalse") EXCEPT !.target = address]

\* OpCode::CallFunction { target }
CallFunction(target) == [Op("CallFunction") EXCEPT !.path = target]

----------------------------------------------------------------------------
(* Functions and namespaces *)

\* No function: what a failed lookup carries
NoFunction == [id |-> 0, kind |-> "None", result |-> "", effect |-> <<>>,
               instructions |-> <<>>]

\* Function::NativeFunction: the binding returns Err(result) unless result
\* is "", after inserting Integer(1) at the global `effect` unless that is
\* empty
NativeFunction(id, result, effect) ==
    [id |-> id, kind |-> "Native", result |-> result, effect |-> effect,
     instructions |-> <<>>]

\* Function::VirtualFunction
VirtualFunction(id, instructions) ==
    [id |-> id, kind |-> "Virtual", result |-> "", effect |-> <<>>,
     instructions |-> instructions]

\* Namespace::new
NewNamespace == [children |-> EmptyMap, functions |-> EmptyMap,
                 function_cache |-> EmptyMap]

\* The host has not called the root namespace yet
NoOutcome == [op |-> "none", path |-> <<>>, ok |-> TRUE, error |-> "",
              function |-> NoFunction]

\* Mutant of add_function_entry_slice: the first function registered under a
\* name is also entered into the cache of its namespace, and stays there.
RECURSIVE add_function_entry_cached(_, _, _)
add_function_entry_cached(ns, function, path) ==
    IF Len(path) > 1
    THEN LET next_namespace_name == to_lowercase(path[1])
             next_slice == Tail(path)
         IN  IF next_namespace_name \in DOMAIN ns.children
             THEN LET r == add_function_entry_cached(
                               ns.children[next_namespace_name], function, next_slice)
                  IN  [ok |-> r.ok, error |-> r.error,
                       ns |-> [ns EXCEPT !.children[next_namespace_name] = r.ns]]
             ELSE [ok |-> FALSE, error |-> "Namespace Lookup Failed", ns |-> ns]
    ELSE LET function_name == to_lowercase(path[1])
         IN  [ok |-> TRUE, error |-> "",
              ns |-> [ns EXCEPT
                        !.functions = Insert(ns.functions, function_name, function),
                        !.function_cache =
                            IF function_name \in DOMAIN ns.function_cache
                            THEN ns.function_cache
                            ELSE Insert(ns.function_cache, function_name, function)]]

\* Namespace::add_function_entry_slice: [ok, error, ns], ns the namespace
\* afterwards
RECURSIVE add_function_entry_slice(_, _, _)
add_function_entry_slice(ns, function, path) ==
    IF Len(path) > 1
    THEN LET next_namespace_name == to_lowercase(path[1])
             next_slice == Tail(path)
         IN  IF next_namespace_name \in DOMAIN ns.children
             THEN LET r == add_function_entry_slice(
                               ns.children[next_namespace_name], function, next_slice)
                  IN  [ok |-> r.ok, error |-> r.error,
                       ns |-> [ns EXCEPT !.children[next_namespace_name] = r.ns]]
             ELSE [ok |-> FALSE, error |-> "Namespace Lookup Failed", ns |-> ns]
    ELSE LET function_name == to_lowercase(path[1])
         IN  [ok |-> TRUE, error |-> "",
              ns |-> [ns EXCEPT !.functions = Insert(ns.functions, function_name, function)]]

\* Namespace::add_function_entry
add_function_entry(ns, function, path) == add_function_entry_slice(ns, function, path)

\* Mutant of lookup_function_uncached_slice: the names of the path are looked
\* up as they are written.
RECURSIVE lookup_function_exact_case(_, _)
lookup_function_exact_case(ns, path) ==
    IF Len(path) > 1
    THEN LET next_namespace_name == path[1]
             next_slice == Tail(path)
         IN  IF next_namespace_name \in DOMAIN ns.children
             THEN lookup_function_exact_case(ns.children[next_namespace_name], next_slice)
             ELSE [ok |-> FALSE, error |-> "Namespace Lookup Failed", function |-> NoFunction]
    ELSE LET function_name == path[1]
         IN  IF function_name \in DOMAIN ns.functions
             THEN [ok |-> TRUE, error |-> "", function |-> ns.functions[function_name]]
             ELSE [ok |-> FALSE, error |-> "Function Lookup Failed", function |-> NoFunction]

\* Namespace::lookup_function_uncached_slice: [ok, error, function]
RECURSIVE lookup_function_uncached_slice(_, _)
lookup_function_uncached_slice(ns, path) ==
    IF Len(path) > 1
    THEN LET next_namespace_name == to_lowercase(path[1])
             next_slice == Tail(path)
         IN  IF next_namespace_name \in DOMAIN ns.children
             THEN lookup_function_uncached_slice(ns.children[next_namespace_name], next_slice)
             ELSE [ok |-> FALSE, error |-> "Namespace Lookup Failed", function |-> NoFunction]
    ELSE LET function_name == to_lowercase(path[1])
         IN  IF function_name \in DOMAIN ns.functions
             THEN [ok |-> TRUE, error |-> "", function |-> ns.functions[function_name]]
             ELSE [ok |-> FALSE, error |-> "Function Lookup Failed", function |-> NoFunction]

\* Namespace::lookup_function_uncached
lookup_function_uncached(ns, path) == lookup_function_uncached_slice(ns, path)

\* What lookup_function_cached feeds the hasher: the lowercased elements of
\* the path, one after the other
RECURSIVE PathBytes(_)
PathBytes(path) ==
    IF path = <<>> THEN <<>> ELSE to_lowercase(Head(path)) \o PathBytes(Tail(path))

\* Namespace::lookup_function_cached: [ok, error, function]
lookup_function_cached(ns, path) ==
    LET lookup_id == PathBytes(path)
    IN  IF lookup_id \in DOMAIN ns.function_cache
        THEN [ok |-> TRUE, error |-> "", function |-> ns.function_cache[lookup_id]]
        ELSE lookup_function_uncached_slice(ns, path)

----------------------------------------------------------------------------
(* The machine: one record for what an opcode reads and writes *)

Machine == [pc |-> pc, stack |-> stack, locals |-> locals, globals |-> globals,
            status |-> status, error |-> error]

Top(s) == s[Len(s)]

\* Vec::pop: the vector without its last element (an empty one stays empty)
Rest(s) == IF s = <<>> THEN <<>> ELSE SubSeq(s, 1, Len(s) - 1)

\* Mutant of Fail: the globals are as they were when the machine was made.
FailRolledBack(m, description) ==
    [m EXCEPT !.status = "err", !.error = description, !.globals = EmptyMap]

\* return Err(description)
Fail(m, description) == [m EXCEPT !.status = "err", !.error = description]

\* a panic: unwrap of None or of Err, arithmetic overflow, panic!
Panic(m, what) == [m EXCEPT !.status = "panic", !.error = what]

UnwrapNone == "unwrap on None"

UnwrapErr == "unwrap on Err"

\* Mutant of process_address: the magnitude of a negative offset is added.
process_address_magnitude_added(offset_out, address) ==
    IF address.kind = "Absolute"
    THEN [value |-> address.value, overflow |-> FALSE]
    ELSE LET calculated_offset == (address.value * (-1)) % UsizeModulus
         IN  [value |-> (offset_out + calculated_offset) % UsizeModulus,
              overflow |-> offset_out + calculated_offset >= UsizeModulus]

\* Mutant of process_address: an absolute target is added to the counter.
process_address_absolute_added(offset_out, address) ==
    IF address.kind = "Absolute"
    THEN [value |-> offset_out + address.value, overflow |-> FALSE]
    ELSE IF address.value < 0
         THEN [value |-> (offset_out + address.value) % UsizeModulus,
               overflow |-> offset_out < -address.value]
         ELSE [value |-> (offset_out + ((-address.value) % UsizeModulus)) % UsizeModulus,
               overflow |-> offset_out + ((-address.value) % UsizeModulus) >= UsizeModulus]

\* Mutant of process_address: a relative offset is applied to the counter
\* of the branch itself, not to the advanced one.
process_address_from_branch(offset_out, address) ==
    IF address.kind = "Absolute"
    THEN [value |-> address.value, overflow |-> FALSE]
    ELSE IF address.value < 0
         THEN [value |-> (offset_out - 1 + address.value) % UsizeModulus,
               overflow |-> offset_out - 1 < -address.value]
         ELSE [value |-> (offset_out - 1 + ((-address.value) % UsizeModulus)) % UsizeModulus,
               overflow |-> offset_out - 1 + ((-address.value) % UsizeModulus) >= UsizeModulus]

\* process_address: the new counter, and whether the usize arithmetic
\* overflowed (a panic in a debug build, a wrap in a release build).
\* The cast to usize of a negated positive offset sign-extends it to
\* UsizeModulus - offset.
process_address(offset_out, address) ==
    IF address.kind = "Absolute"
    THEN [value |-> address.value, overflow |-> FALSE]
    ELSE IF address.value < 0
         THEN LET calculated_offset == address.value * (-1)
              IN  [value |-> (offset_out - calculated_offset) % UsizeModulus,
                   overflow |-> offset_out < calculated_offset]
         ELSE LET calculated_offset == (address.value * (-1)) % UsizeModulus
              IN  [value |-> (offset_out + calculated_offset) % UsizeModulus,
                   overflow |-> offset_out + calculated_offset >= UsizeModulus]

\* The counter after a taken branch.
Branch(m, address, bld) ==
    LET a == process_address(m.pc, address)
    IN  IF a.overflow /\ bld = "debug"
        THEN Panic(m, "attempt to add or subtract with overflow")
        ELSE [m EXCEPT !.pc = a.value]

\* Mutant of perform_assignment: a right-hand side that is a Reference is
\* bound as it is, without reading the variable it names.
perform_assignment_aliased(ref, g, l, rhs) ==
    LET value == IF rhs.sv = "Variable"
                 THEN [tag |-> "Variable", num |-> 0, str |-> rhs.ref.value,
                       bool |-> rhs.ref.scope = "Global"]
                 ELSE rhs.raw
    IN  IF ref.scope = "Global"
        THEN [globals |-> Insert(g, ref.value, value), locals |-> l, panic |-> FALSE]
        ELSE [globals |-> g, locals |-> Insert(l, ref.value, value), panic |-> FALSE]

\* Mutant of perform_assignment: every target is taken for a Local.
perform_assignment_local(ref, g, l, rhs) ==
    [globals |-> g, locals |-> Insert(l, ref.value, as_raw(rhs, g, l)),
     panic |-> FALSE]

\* VariableReference::perform_assignment: [globals, locals, panic].
\* The Global arm holds vm.globals.borrow_mut() while rhs.as_raw runs, and
\* deref of a Global takes borrow_mut again: a BorrowMutError panic.
perform_assignment(ref, g, l, rhs) ==
    IF ref.scope = "Global"
    THEN IF rhs.sv = "Variable" /\ rhs.ref.scope = "Global"
         THEN [globals |-> g, locals |-> l, panic |-> TRUE]
         ELSE [globals |-> Insert(g, ref.value, as_raw(rhs, g, l)),
               locals |-> l, panic |-> FALSE]
    ELSE [globals |-> g,
          locals |-> Insert(l, ref.value, as_raw(rhs, g, l)),
          panic |-> FALSE]

----------------------------------------------------------------------------
(* The opcodes of VirtualMachine::interpret.  Each operator takes the       *)
(* machine after `current_index += 1` and yields the machine after the     *)
(* match arm.  After a failure the record keeps the frame as it was when   *)
(* the arm gave up.                                                        *)

FaultChecks == "fault-checks" \in features

\* Two pops that went short: Err under fault-checks, else an unwrap panic.
Underflow(m, description) ==
    IF FaultChecks THEN Fail([m EXCEPT !.stack = <<>>], description)
    ELSE Panic([m EXCEPT !.stack = <<>>], UnwrapNone)

ExecSwap(m) ==
    IF Len(m.stack) < 2
    THEN Underflow(m, "Failed to load Values off Stack for Swap")
    ELSE LET lhs == Top(m.stack)
             rhs == Top(Rest(m.stack))
         IN  [m EXCEPT !.stack = Append(Append(Rest(Rest(m.stack)), rhs), lhs)]

\* Mutant of ExecPush: a Reference is read when it is pushed.
ExecPushValue(m, value) ==
    [m EXCEPT !.stack = Append(m.stack, Raw(as_raw(value, m.globals, m.locals)))]

ExecPush(m, value) == [m EXCEPT !.stack = Append(m.stack, value)]

ExecPop(m) ==
    IF m.stack = <<>>
    THEN Underflow(m, "Failed to Pop Value from Stack")
    ELSE [m EXCEPT !.stack = Rest(m.stack)]

ExecJump(m, target) == Branch(m, target, build)

\* Mutant of ExecJumpIf: the branch is taken on the opposite condition.
ExecJumpIfInverted(m, target, when) ==
    IF m.stack = <<>>
    THEN Underflow(m, "Failed to Load condition for JumpTrue from Stack")
    ELSE LET current_value == Top(m.stack)
             popped == [m EXCEPT !.stack = Rest(m.stack)]
         IN  IF as_boolean(as_raw(current_value, m.globals, m.locals)) # when
             THEN Branch(popped, target, build)
             ELSE popped

\* JumpTrue (when = TRUE) and JumpFalse (when = FALSE)
ExecJumpIf(m, target, when) ==
    IF m.stack = <<>>
    THEN Underflow(m, "Failed to Load condition for JumpTrue from Stack")
    ELSE LET current_value == Top(m.stack)
             popped == [m EXCEPT !.stack = Rest(m.stack)]
         IN  IF as_boolean(as_raw(current_value, m.globals, m.locals)) = when
             THEN Branch(popped, target, build)
             ELSE popped

ExecAssignment(m) ==
    IF Len(m.stack) < 2
    THEN IF FaultChecks
         THEN Fail([m EXCEPT !.stack = <<>>],
                   "Failed to Load lhs & rhs from Stack for Assignment")
         ELSE IF Len(m.stack) = 1 /\ ~as_variable(Top(m.stack)).ok
              THEN Panic([m EXCEPT !.stack = <<>>], UnwrapErr)
              ELSE Panic([m EXCEPT !.stack = <<>>], UnwrapNone)
    ELSE LET lhs == Top(m.stack)
             rhs == Top(Rest(m.stack))
             popped == [m EXCEPT !.stack = Rest(Rest(m.stack))]
             target == as_variable(lhs)
             done == perform_assignment(target.value, m.globals, m.locals, rhs)
         IN  IF ~target.ok THEN Panic(popped, UnwrapErr)
             ELSE IF done.panic THEN Panic(popped, "already borrowed")
             ELSE [popped EXCEPT !.globals = done.globals,
                                 !.locals = done.locals,
                                 !.stack = Append(popped.stack, lhs)]

\* Mutant of ExecConcat: the second pop comes first in the result.
ExecConcatReversed(m) ==
    IF Len(m.stack) < 2
    THEN Underflow(m, "Failed to Load lhs & rhs from Stack for Concat")
    ELSE LET lhs == Top(m.stack)
             rhs == Top(Rest(m.stack))
             result == as_string(as_raw(rhs, m.globals, m.locals))
                       \o as_string(as_raw(lhs, m.globals, m.locals))
         IN  [m EXCEPT !.stack = Append(Rest(Rest(m.stack)), Raw(String(result)))]

ExecConcat(m) ==
    IF Len(m.stack) < 2
    THEN Underflow(m, "Failed to Load lhs & rhs from Stack for Concat")
    ELSE LET lhs == Top(m.stack)
             rhs == Top(Rest(m.stack))
             result == as_string(as_raw(lhs, m.globals, m.locals))
                       \o as_string(as_raw(rhs, m.globals, m.locals))
         IN  [m EXCEPT !.stack = Append(Rest(Rest(m.stack)), Raw(String(result)))]

ExecNegate(m) == Panic(m, "Not Implemented")

ExecNot(m) ==
    IF m.stack = <<>> THEN Panic(m, UnwrapNone)
    ELSE LET current_value == Top(m.stack)
         IN  [m EXCEPT !.stack = Append(Rest(m.stack),
                 Raw(Boolean(~as_boolean(as_raw(current_value, m.globals, m.locals)))))]

\* Mutant of greater_than_or_equal: the comparison is strict.
greater_than(lhs, rhs) == as_float(lhs) > as_float(rhs)

\* The comparison of the GreaterThanOrEqual arm
greater_than_or_equal(lhs, rhs) == as_float(lhs) >= as_float(rhs)

\* What a binary operator pushes for the raw operands lhs (the first pop)
\* and rhs (the second pop).
BinaryResult(name, lhs, rhs) ==
    CASE name = "Add" -> Float(add(lhs, rhs))
      [] name = "Minus" -> Float(subtract(lhs, rhs))
      [] name = "Multiply" -> Float(multiply(lhs, rhs))
      [] name = "LogicalAnd" -> Boolean(as_boolean(lhs) /\ as_boolean(rhs))
      [] name = "LogicalOr" -> Boolean(as_boolean(lhs) \/ as_boolean(rhs))
      [] name = "LessThan" -> Boolean(as_float(lhs) < as_float(rhs))
      [] name = "GreaterThan" -> Boolean(as_float(lhs) > as_float(rhs))
      [] name = "GreaterThanOrEqual" -> Boolean(greater_than_or_equal(lhs, rhs))
      [] name = "Equals" -> Boolean(equals(lhs, rhs))
      [] name = "NotEquals" -> Boolean(~equals(lhs, rhs))
      [] name = "StringEquals" -> Boolean(as_string(lhs) = as_string(rhs))
      [] name = "StringNotEqual" -> Boolean(as_string(lhs) # as_string(rhs))

\* Mutant of ExecBinary: the second pop is the left-hand side.
ExecBinaryReversed(m, name) ==
    IF Len(m.stack) < 2 THEN Panic([m EXCEPT !.stack = <<>>], UnwrapNone)
    ELSE LET lhs == as_raw(Top(Rest(m.stack)), m.globals, m.locals)
             rhs == as_raw(Top(m.stack), m.globals, m.locals)
         IN  [m EXCEPT !.stack = Append(Rest(Rest(m.stack)),
                                        Raw(BinaryResult(name, lhs, rhs)))]

\* The arms that pop with `frame.stack.pop().unwrap()` twice and push once.
ExecBinary(m, name) ==
    IF Len(m.stack) < 2 THEN Panic([m EXCEPT !.stack = <<>>], UnwrapNone)
    ELSE LET lhs == as_raw(Top(m.stack), m.globals, m.locals)
             rhs == as_raw(Top(Rest(m.stack)), m.globals, m.locals)
         IN  [m EXCEPT !.stack = Append(Rest(Rest(m.stack)),
                                        Raw(BinaryResult(name, lhs, rhs)))]

BinaryOps == {"Add", "Minus", "Multiply", "LogicalAnd", "LogicalOr", "LessThan",
              "GreaterThan", "GreaterThanOrEqual", "Equals", "NotEquals",
              "StringEquals", "StringNotEqual"}

\* OpCode::Divide
ExecDivide(m) ==
    IF Len(m.stack) < 2 THEN Panic([m EXCEPT !.stack = <<>>], UnwrapNone)
    ELSE LET lhs == as_raw(Top(m.stack), m.globals, m.locals)
             rhs == as_raw(Top(Rest(m.stack)), m.globals, m.locals)
         IN  [m EXCEPT !.stack = Append(Rest(Rest(m.stack)), Raw(Float(divide(lhs, rhs))))]

\* Mutant of ExecModulus: a zero divisor is an Err of interpret.
ExecModulusChecked(m) ==
    IF Len(m.stack) < 2 THEN Panic([m EXCEPT !.stack = <<>>], UnwrapNone)
    ELSE LET lhs == as_integer(as_raw(Top(m.stack), m.globals, m.locals))
             rhs == as_integer(as_raw(Top(Rest(m.stack)), m.globals, m.locals))
             popped == [m EXCEPT !.stack = Rest(Rest(m.stack))]
         IN  IF rhs = 0
             THEN Fail(popped, "Modulus by zero")
             ELSE [popped EXCEPT !.stack = Append(popped.stack,
                                                  Raw(Integer(remainder(lhs, rhs))))]

\* OpCode::Modulus: as_integer of both, and `%`, which panics on a zero
\* divisor
ExecModulus(m) ==
    IF Len(m.stack) < 2 THEN Panic([m EXCEPT !.stack = <<>>], UnwrapNone)
    ELSE LET lhs == as_integer(as_raw(Top(m.stack), m.globals, m.locals))
             rhs == as_integer(as_raw(Top(Rest(m.stack)), m.globals, m.locals))
             popped == [m EXCEPT !.stack = Rest(Rest(m.stack))]
         IN  IF rhs = 0
             THEN Panic(popped, "attempt to calculate the remainder with a divisor of zero")
             ELSE [popped EXCEPT !.stack = Append(popped.stack,
                                                  Raw(Integer(remainder(lhs, rhs))))]

\* `match current_instruction`
Execute(m, i) ==
    CASE i.op = "Swap" -> ExecSwap(m)
      [] i.op = "PushFloat" -> ExecPush(m, Raw(Float(i.num)))
      [] i.op = "PushInteger" -> ExecPush(m, Raw(Integer(i.num)))
      [] i.op = "PushString" -> ExecPush(m, Raw(String(i.str)))
      [] i.op = "PushVariable" -> ExecPush(m, Variable(i.ref))
      [] i.op = "Pop" -> ExecPop(m)
      [] i.op = "Jump" -> ExecJump(m, i.target)
      [] i.op = "JumpTrue" -> ExecJumpIf(m, i.target, TRUE)
      [] i.op = "JumpFalse" -> ExecJumpIf(m, i.target, FALSE)
      [] i.op = "NOP" -> m
      [] i.op = "Assignment" -> ExecAssignment(m)
      [] i.op = "Concat" -> ExecConcat(m)
      [] i.op = "Negate" -> ExecNegate(m)
      [] i.op = "Not" -> ExecNot(m)
      [] i.op = "Divide" -> ExecDivide(m)
      [] i.op = "Modulus" -> ExecModulus(m)
      [] i.op \in BinaryOps -> ExecBinary(m, i.op)

\* Mutant of Advance: the counter skips an instruction.
AdvanceByTwo(m) == [m EXCEPT !.pc = m.pc + 2]

\* `current_index += 1`
Advance(m) == [m EXCEPT !.pc = m.pc + 1]

\* One iteration of the loop of interpret past its exit test: fetch,
\* advance, execute.
Iterate(m, instrs) == Execute(Advance(m), instrs[m.pc + 1])

----------------------------------------------------------------------------
(* Instruction sequences the host hands to interpret *)

NOP == Op("NOP")

\* Variable names, as the host passes them to variable_name_to_identifier
NameX == <<"x">>

NameS == <<"s">>

NameCounter == <<"c", "o", "u", "n", "t", "e", "r">>

NameResult == <<"r", "e", "s", "u", "l", "t">>

NameIterations == <<"i", "t", "e", "r", "a", "t", "i", "o", "n", "s">>

LocalVar(name) == Local(variable_name_to_identifier(name))

GlobalVar(name) == Global(variable_name_to_identifier(name))

\* The references R of the fixtures
References == {LocalVar(NameX), GlobalVar(NameX)}

\* The pushes of a scalar V: a float, integers, strings
ScalarPushes ==
    {PushFloat(3), PushInteger(0), PushInteger(-7), PushString(<<>>),
     PushString(<<"A", "B">>), PushString(<<"1", "2">>)}

\* Pushes of any entry, a Reference included
EntryPushes == {PushInteger(5), PushString(<<"C">>), PushVariable(GlobalVar(NameX))}

\* What may lie on the stack below a fixture
Prefixes == {<<>>, <<PushString(<<"B">>), PushVariable(LocalVar(NameS))>>}

\* tests.rs test_vm, benches large_loop_ops: `Push V; PushVariable R;
\* Assignment; Pop`
AssignFixture(below, push, ref) ==
    below \o <<push, PushVariable(ref), Op("Assignment"), Op("Pop")>>

SwapFixture(below, first, second) == below \o <<first, second, Op("Swap")>>

UnsetReadFixture(ref) ==
    <<PushVariable(ref), PushString(<<>>), Op("StringEquals")>>

\* benches/vm_benchmark.rs large_loop_ops, tests.rs opcodes_a: the counted
\* loop with `iterations` as the count and `constant` as what the body adds
LoopStart == 12

LoopFixture(iterations, constant) ==
    << PushInteger(0), PushVariable(LocalVar(NameCounter)), Op("Assignment"), Op("Pop"),
       PushFloat(0), PushVariable(LocalVar(NameResult)), Op("Assignment"), Op("Pop"),
       PushInteger(iterations), PushVariable(LocalVar(NameIterations)),
       Op("Assignment"), Op("Pop"),
       NOP,
       PushVariable(LocalVar(NameResult)), PushFloat(constant), Op("Add"),
       PushVariable(LocalVar(NameResult)), Op("Swap"), Op("Assignment"), Op("Pop"),
       PushVariable(LocalVar(NameCounter)), PushInteger(1), Op("Add"),
       PushVariable(LocalVar(NameCounter)), Op("Assignment"), Op("Pop"),
       PushVariable(LocalVar(NameIterations)), PushVariable(LocalVar(NameCounter)),
       Op("GreaterThanOrEqual"), JumpFalseTo(Absolute(LoopStart)),
       PushVariable(LocalVar(NameResult)), PushVariable(GlobalVar(NameResult)),
       Op("Assignment") >>

\* spec.md scenario 1, the global increment
GlobalIncrementFixture ==
    << PushInteger(0), PushVariable(GlobalVar(NameX)), Op("Assignment"), Op("Pop"),
       PushVariable(GlobalVar(NameX)), PushInteger(1), Op("Add"),
       PushVariable(GlobalVar(NameX)), Op("Swap"), Op("Assignment"), Op("Pop") >>

\* spec.md scenario 2, the string concat
ConcatFixture ==
    << PushString(<<"A", "B">>), PushString(<<"C">>), Op("Concat"),
       PushVariable(LocalVar(NameS)), Op("Swap"), Op("Assignment"), Op("Pop") >>

\* A branch at index 4 of a sequence of 7 whose every cycle leaves the
\* stack as it found it
JumpFixture(jump) ==
    << PushInteger(1), PushVariable(LocalVar(NameX)), Op("Assignment"), NOP,
       jump, PushString(<<"A">>), NOP >>

\* A conditional branch at index 2, taken or not by the pushed condition
CondFixture(condition, jump) == <<NOP, PushInteger(condition), jump, NOP, NOP>>

\* A conditional branch at index 6 on a Reference, with a string below it:
\* the variable is first assigned the pushed value, or never written when
\* push is NOP
CondRefFixture(push, ref, jump) ==
    IF push = NOP
    THEN << PushString(<<"B">>), NOP, NOP, NOP, NOP, PushVariable(ref), jump, NOP, NOP >>
    ELSE << PushString(<<"B">>), push, PushVariable(ref), Op("Assignment"), Op("Pop"),
            PushVariable(ref), jump, NOP, NOP >>

\* Where the branch of CondRefFixture goes: forward, to the end, back over
\* the push of its operand, and by a positive offset
CondRefTargets == {Absolute(8), Absolute(9), Relative(-2), Relative(1)}

AbsoluteTargets == 3..8

RelativeOffsets == {-6, -2, -1, 0, 1, 2, 6}

Addresses == {Absolute(k) : k \in AbsoluteTargets} \cup {Relative(d) : d \in RelativeOffsets}

\* Sequences of up to three instructions that do not fail, most of them
\* without a branch
StraightOps == {NOP, PushInteger(1), PushString(<<"A", "B">>), PushVariable(LocalVar(NameX)),
                JumpTo(Relative(0))}

StraightLine ==
    {<<>>} \cup {<<a>> : a \in StraightOps}
           \cup {<<a, b>> : a \in StraightOps, b \in StraightOps}
           \cup {<<a, b, c>> : a \in StraightOps, b \in StraightOps, c \in StraightOps}

\* One sequence for each remaining opcode, on operands of every variant
OperandPushes == {PushFloat(2), PushInteger(-7), PushString(<<"1", "2">>),
                  PushString(<<"A">>), PushVariable(GlobalVar(NameX))}

Operators == (BinaryOps \cup {"Concat", "Swap", "Assignment"})

Arithmetic ==
    {<<a, b, Op(o)>> : a \in OperandPushes, b \in OperandPushes, o \in Operators}
    \cup {<<a, Op(o)>> : a \in OperandPushes, o \in {"Not", "Negate", "Pop", "Add", "Swap"}}
    \cup {<<Op(o)>> : o \in {"Pop", "Swap", "Assignment", "Concat", "Not", "Add"}}
    \cup {<<JumpTrueTo(Absolute(0))>>, <<JumpFalseTo(Absolute(0))>>}

\* Operands (first, second) of which the first divides the second
OrderPairs == {<<2, 6>>, <<-3, 6>>, <<6, 6>>, <<3, -6>>}

\* More operands for Modulus: a remainder other than 0, and a divisor 0
ModulusPairs == {<<4, -6>>, <<-4, 6>>, <<6, 4>>, <<0, 6>>}

\* Push a; Push b; and an operator that is not commutative
OrderFixtures ==
    {<<PushInteger(p[1]), PushInteger(p[2]), Op(o)>> :
        p \in OrderPairs, o \in {"Minus", "Divide", "LessThan", "Modulus"}}
    \cup {<<PushFloat(p[1]), PushInteger(p[2]), Op(o)>> :
        p \in OrderPairs, o \in {"Divide", "Modulus"}}
    \cup {<<PushInteger(p[1]), PushInteger(p[2]), Op("Modulus")>> : p \in ModulusPairs}
    \cup {<<PushInteger(6), Op(o)>> : o \in {"Divide", "Modulus"}}

\* One name in several spellings
CaseNames == {<<"s", "u", "m">>, <<"S", "u", "m">>, <<"S", "U", "M">>, <<"s", "U", "m">>}

\* %written = 7; %read + 1, the two names with the same sigil
CaseFixture(global, written, read) ==
    LET ref(name) == IF global THEN Global(variable_name_to_identifier(name))
                     ELSE Local(variable_name_to_identifier(name))
    IN  << PushInteger(7), PushVariable(ref(written)), Op("Assignment"), Op("Pop"),
           PushVariable(ref(read)), PushInteger(1), Op("Add") >>

CaseFixtures ==
    {CaseFixture(global, written, read) :
        global \in BOOLEAN, written \in CaseNames, read \in CaseNames}

\* %x = 3 (or nothing); a Reference to x is pushed; %x = 7; the Reference
\* is consumed by `+ 1`
DeferredFixture(ref, written) ==
    (IF written
     THEN <<PushInteger(3), PushVariable(ref), Op("Assignment"), Op("Pop")>>
     ELSE <<NOP, NOP, NOP, NOP>>)
    \o << PushVariable(ref), PushInteger(7), PushVariable(ref), Op("Assignment"), Op("Pop"),
           PushInteger(1), Op("Add") >>

DeferredFixtures == {DeferredFixture(ref, written) : ref \in References, written \in BOOLEAN}

\* The variables of the chained assignment
ChainReferences == {LocalVar(NameX), GlobalVar(NameX), LocalVar(NameS), GlobalVar(NameS)}

\* %a = %b = 7
ChainFixture(a, b) ==
    << PushInteger(7), PushVariable(b), Op("Assignment"), PushVariable(a), Op("Assignment") >>

ChainFixtures ==
    {ChainFixture(pair[1], pair[2]) :
        pair \in {q \in ChainReferences \X ChainReferences : q[1] # q[2]}}

\* %b = 3; %a = %b; %b = 9
CopyFixture(a, b) ==
    << PushInteger(3), PushVariable(b), Op("Assignment"), Op("Pop"),
       PushVariable(b), PushVariable(a), Op("Assignment"), Op("Pop"),
       PushInteger(9), PushVariable(b), Op("Assignment"), Op("Pop") >>

CopyFixtures ==
    {CopyFixture(pair[1], pair[2]) :
        pair \in {q \in ChainReferences \X ChainReferences : q[1] # q[2]}}

\* %x = 1; $s = 2; $x = 3; %s = 4
ScopesFixture ==
    << PushInteger(1), PushVariable(LocalVar(NameX)), Op("Assignment"), Op("Pop"),
       PushInteger(2), PushVariable(GlobalVar(NameS)), Op("Assignment"), Op("Pop"),
       PushInteger(3), PushVariable(GlobalVar(NameX)), Op("Assignment"), Op("Pop"),
       PushInteger(4), PushVariable(LocalVar(NameS)), Op("Assignment"), Op("Pop") >>

\* The operators of equality
EqualityOps == {"Equals", "NotEquals", "StringEquals", "StringNotEqual"}

\* "abc" against "xyz", and "12" against 12
WordsFixture(o) == << PushString(<<"a", "b", "c">>), PushString(<<"x", "y", "z">>), Op(o) >>

NumeralFixture(o) == << PushString(<<"1", "2">>), PushInteger(12), Op(o) >>

\* The Boolean true that `1 == 1` leaves, against Integer 1
TruthFixture(o) ==
    << PushInteger(1), PushInteger(1), Op("Equals"), PushInteger(1), Op(o) >>

EqualityFixtures ==
    {WordsFixture(o) : o \in EqualityOps} \cup {NumeralFixture(o) : o \in EqualityOps}
    \cup {TruthFixture(o) : o \in EqualityOps}

\* Right-hand operands of Modulus that coerce to the integer 0: a literal, a
\* string that is no number, and variables never written
ZeroPushes ==
    {PushInteger(0), PushFloat(0), PushString(<<"A">>), PushString(<<>>),
     PushVariable(GlobalVar(NameX)), PushVariable(LocalVar(NameX))}

\* 6 % divisor (the right-hand side is the second pop)
ZeroDivisorFixture(divisor) == << divisor, PushInteger(6), Op("Modulus"), PushInteger(1) >>

ZeroDivisorFixtures == {ZeroDivisorFixture(divisor) : divisor \in ZeroPushes}

Programs ==
    OrderFixtures \cup CaseFixtures \cup DeferredFixtures \cup ChainFixtures \cup
    CopyFixtures \cup {ScopesFixture} \cup EqualityFixtures \cup ZeroDivisorFixtures \cup
    StraightLine
    \cup {AssignFixture(below, push, ref) :
            below \in Prefixes, push \in ScalarPushes, ref \in References}
    \cup {SwapFixture(below, first, second) :
            below \in Prefixes, first \in EntryPushes, second \in EntryPushes}
    \cup {UnsetReadFixture(ref) : ref \in References}
    \cup {LoopFixture(n, 3) : n \in 1..MaxIterations}
    \cup {GlobalIncrementFixture, ConcatFixture}
    \cup {JumpFixture(JumpTo(a)) : a \in Addresses}
    \cup {CondFixture(c, JumpTrueTo(a)) : c \in {0, 1}, a \in Addresses}
    \cup {CondFixture(c, JumpFalseTo(a)) : c \in {0, 1}, a \in Addresses}
    \cup {CondRefFixture(push, ref, jump) :
            push \in ScalarPushes \cup {NOP}, ref \in References,
            jump \in {JumpTrueTo(a) : a \in CondRefTargets}
                      \cup {JumpFalseTo(a) : a \in CondRefTargets}}
    \cup Arithmetic

----------------------------------------------------------------------------
(* The state machine of one interpret call *)

\* The frame of a fresh interpret call on a new machine
Fresh == [pc |-> 0, stack |-> <<>>, locals |-> EmptyMap, globals |-> EmptyMap,
          status |-> "running", error |-> ""]

\* VirtualMachine::new, then the head of interpret: a fresh frame and
\* current_index = 0
Init ==
    /\ build \in {"debug", "release"}
    /\ features \in SUBSET {"fault-checks"}
    /\ ops \in Programs
    /\ pc = 0
    /\ stack = <<>>
    /\ locals = EmptyMap
    /\ globals = EmptyMap
    /\ status = "running"
    /\ error = ""
    /\ trace = <<>>
    /\ root_namespace = NewNamespace
    /\ frames = <<>>
    /\ calls = <<>>
    /\ runs = 1
    /\ entries = <<>>
    /\ outcome = NoOutcome
    /\ threads = <<>>
    /\ globals_lock = "free"

\* `if !continue_running || current_index >= op_count { return Ok(()) }`
\* The interpret call that the host made returns to the host; the interpret
\* call of a VirtualFunction returns through Function::call to the
\* CallFunction arm that made it, which is the end of that arm.
Return ==
    /\ status = "running"
    /\ pc >= Len(ops)
    /\ IF frames = <<>>
       THEN /\ status' = "ok"
            /\ UNCHANGED <<ops, pc, stack, locals, frames>>
       ELSE LET caller == Top(frames)
            IN  /\ ops' = caller.ops
                /\ pc' = caller.pc
                /\ stack' = caller.stack
                /\ locals' = caller.locals
                /\ frames' = Rest(frames)
                /\ status' = status
    /\ UNCHANGED <<build, features, globals, error, trace, root_namespace, calls, runs, entries, outcome, threads, globals_lock>>

\* The frame after the match arm.  An Err returned by the interpret call of
\* a VirtualFunction is unwrapped by the CallFunction arm that made it.
Commit(m) ==
    /\ pc' = m.pc
    /\ stack' = m.stack
    /\ locals' = m.locals
    /\ globals' = m.globals
    /\ status' = IF m.status = "err" /\ frames # <<>> THEN "panic" ELSE m.status
    /\ error' = IF m.status = "err" /\ frames # <<>> THEN UnwrapErr ELSE m.error
    /\ trace' = IF Len(trace) < MaxTrace THEN Append(trace, pc) ELSE trace
    /\ UNCHANGED <<build, features, ops, root_namespace, frames, calls, runs, entries, outcome, threads, globals_lock>>

\* One iteration of the loop on an instruction of the given opcode
Step(name) ==
    /\ status = "running"
    /\ pc < Len(ops)
    /\ ops[pc + 1].op = name
    /\ Commit(Iterate(Machine, ops))

DoSwap == Step("Swap")

DoPushFloat == Step("PushFloat")

DoPushInteger == Step("PushInteger")

DoPushString == Step("PushString")

DoPushVariable == Step("PushVariable")

DoPop == Step("Pop")

DoJump == Step("Jump")

DoJumpTrue == Step("JumpTrue")

DoJumpFalse == Step("JumpFalse")

DoNOP == Step("NOP")

DoAssignment == Step("Assignment")

DoConcat == Step("Concat")

DoNegate == Step("Negate")

DoDivide == Step("Divide")

DoModulus == Step("Modulus")

DoNot == Step("Not")

DoLogicalAnd == Step("LogicalAnd")

DoLogicalOr == Step("LogicalOr")

DoAdd == Step("Add")

DoMinus == Step("Minus")

DoMultiply == Step("Multiply")

DoLessThan == Step("LessThan")

DoGreaterThan == Step("GreaterThan")

DoGreaterThanOrEqual == Step("GreaterThanOrEqual")

DoEquals == Step("Equals")

DoNotEquals == Step("NotEquals")

DoStringEquals == Step("StringEquals")

DoStringNotEqual == Step("StringNotEqual")

Next ==
    \/ Return
    \/ DoSwap \/ DoPushFloat \/ DoPushInteger \/ DoPushString \/ DoPushVariable
    \/ DoPop \/ DoJump \/ DoJumpTrue \/ DoJumpFalse \/ DoNOP
    \/ DoAssignment \/ DoConcat \/ DoNegate \/ DoNot
    \/ DoLogicalAnd \/ DoLogicalOr
    \/ DoAdd \/ DoMinus \/ DoMultiply \/ DoDivide \/ DoModulus
    \/ DoLessThan \/ DoGreaterThan \/ DoGreaterThanOrEqual
    \/ DoEquals \/ DoNotEquals \/ DoStringEquals \/ DoStringNotEqual

Spec == Init /\ [][Next]_vars

----------------------------------------------------------------------------
(* Calls: a host that has registered functions, and runs sequences with    *)
(* CallFunction on the machine, some of them more than once.               *)

\* Function names and namespace names
Quit == <<"q", "u", "i", "t">>

QuitUpper == <<"Q", "U", "I", "T">>

MathName == <<"m">>

MathUpper == <<"M">>

FailName == <<"f", "a", "i", "l">>

RunName == <<"r", "u", "n">>

BadName == <<"b", "a", "d">>

NestName == <<"n", "e", "s", "t">>

ChainName == <<"c", "a", "b">>

MissingName == <<"g", "o">>

\* tests.rs test_functions: a binding that returns Ok(())
QuitFunction == NativeFunction(1, "", <<>>)

\* A binding that writes the global s through the machine it is given
MarkFunction == NativeFunction(2, "", NameS)

\* A binding that returns an Err
FailFunction == NativeFunction(3, "Native Failure", <<>>)

\* A body that reads its Local x into the Global s, writes its Local x and
\* leaves two entries on its stack
RunBody ==
    << PushVariable(LocalVar(NameX)), PushVariable(GlobalVar(NameS)), Op("Assignment"),
       PushInteger(-7), PushVariable(LocalVar(NameX)), Op("Assignment") >>

RunFunction == VirtualFunction(4, RunBody)

\* A body that pops from its empty stack
BadFunction == VirtualFunction(5, <<Op("Pop")>>)

\* A body that calls a function
NestFunction == VirtualFunction(6, <<CallFunction(<<Quit>>)>>)

\* A body that calls a VirtualFunction
ChainFunction == VirtualFunction(7, <<CallFunction(<<RunName>>), PushInteger(5)>>)

\* What the host registers, in order
Registrations ==
    << [function |-> QuitFunction, path |-> <<Quit>>],
       [function |-> MarkFunction, path |-> <<MathName, Quit>>],
       [function |-> FailFunction, path |-> <<FailName>>],
       [function |-> RunFunction, path |-> <<RunName>>],
       [function |-> BadFunction, path |-> <<BadName>>],
       [function |-> NestFunction, path |-> <<NestName>>],
       [function |-> ChainFunction, path |-> <<ChainName>>] >>

\* The root namespace with the child namespace m that the host inserted
\* into `children`
RootWithMath == [NewNamespace EXCEPT !.children = Insert(EmptyMap, MathName, NewNamespace)]

\* The namespace after the first n registrations
RECURSIVE Registered(_)
Registered(n) ==
    IF n = 0 THEN RootWithMath
    ELSE add_function_entry(Registered(n - 1), Registrations[n].function,
                            Registrations[n].path).ns

HostNamespace == Registered(Len(Registrations))

CallPaths ==
    {<<Quit>>, <<QuitUpper>>, <<MathName, Quit>>, <<MathUpper, QuitUpper>>, <<FailName>>,
     <<RunName>>, <<BadName>>, <<NestName>>, <<ChainName>>, <<MissingName>>,
     <<MissingName, Quit>>}

\* A sequence that reads Global s and Local x into the locals counter and
\* result, and then assigns 7 to Global s and to Local x
CarryProgram ==
    << PushVariable(GlobalVar(NameS)), PushVariable(LocalVar(NameCounter)), Op("Assignment"),
       Op("Pop"),
       PushVariable(LocalVar(NameX)), PushVariable(LocalVar(NameResult)), Op("Assignment"),
       Op("Pop"),
       PushInteger(7), PushVariable(GlobalVar(NameS)), Op("Assignment"), Op("Pop"),
       PushInteger(7), PushVariable(LocalVar(NameX)), Op("Assignment"), Op("Pop") >>

\* A sequence that assigns 7 to Global x, calls the binding that marks
\* Global s, and then pops from its empty stack
FaultProgram ==
    << PushInteger(7), PushVariable(GlobalVar(NameX)), Op("Assignment"), Op("Pop"),
       CallFunction(<<MathName, Quit>>), Op("Pop"), PushInteger(0),
       PushVariable(GlobalVar(NameX)), Op("Assignment") >>

\* A sequence that assigns 1 to Local x and then 3 to Global x
SameNameProgram ==
    << PushInteger(1), PushVariable(LocalVar(NameX)), Op("Assignment"), Op("Pop"),
       PushInteger(3), PushVariable(GlobalVar(NameX)), Op("Assignment"), Op("Pop") >>

\* tests.rs test_functions, benches call_function_ops: a call alone; a call
\* between instructions, with an entry on the stack and a local bound; two
\* calls; the sequence that carries values from one call to the next; and
\* the one that fails after it has written globals
CallPrograms ==
    {CarryProgram, FaultProgram, SameNameProgram} \cup
    {<<CallFunction(p)>> : p \in CallPaths}
    \cup {<< PushInteger(5), PushInteger(5), PushVariable(LocalVar(NameX)), Op("Assignment"),
             CallFunction(p), PushString(<<"A">>) >> : p \in CallPaths}
    \cup {<< CallFunction(<<Quit>>), PushInteger(5), CallFunction(<<MathName, Quit>>) >>}

InitCall ==
    /\ build \in {"debug", "release"}
    /\ features \in SUBSET {"fault-checks"}
    /\ ops \in CallPrograms
    /\ pc = Fresh.pc
    /\ stack = Fresh.stack
    /\ locals = Fresh.locals
    /\ globals = Fresh.globals
    /\ status = Fresh.status
    /\ error = Fresh.error
    /\ trace = <<>>
    /\ root_namespace = HostNamespace
    /\ frames = <<>>
    /\ calls = <<>>
    /\ runs = 1
    /\ entries = <<>>
    /\ outcome = NoOutcome
    /\ threads = <<>>
    /\ globals_lock = "free"

\* The CallFunction arm has vm.root_namespace mutably borrowed until it
\* ends: every suspended interpret call is inside one.
NamespaceBorrowed == frames # <<>>

\* A panic of the thread that runs interpret
Abort(what) ==
    /\ status' = "panic"
    /\ error' = what
    /\ UNCHANGED <<ops, pc, stack, locals, globals, frames, calls>>

\* Mutant of CalleeFrame: the callee runs on the locals of its caller.
CalleeFrameShared(function) ==
    [ops |-> function.instructions, pc |-> 0, stack |-> <<>>, locals |-> locals]

\* Function::call on a VirtualFunction: interpret allocates a new frame for
\* the instructions of the function and starts at index 0
CalleeFrame(function) ==
    [ops |-> function.instructions, pc |-> 0, stack |-> <<>>, locals |-> EmptyMap]

\* The invocation of a native binding, as the history records it
Invocation(function) ==
    [function |-> function.id, stack |-> stack, locals |-> locals,
     depth |-> Len(frames), run |-> runs]

\* OpCode::CallFunction, with Function::call
DoCallFunction ==
    /\ status = "running"
    /\ pc < Len(ops)
    /\ ops[pc + 1].op = "CallFunction"
    /\ trace' = IF Len(trace) < MaxTrace THEN Append(trace, pc) ELSE trace
    /\ UNCHANGED <<build, features, root_namespace, runs, entries, outcome, threads, globals_lock>>
    /\ LET target == ops[pc + 1].path
           function_lookup == lookup_function_cached(root_namespace, target)
           function == function_lookup.function
       IN  IF NamespaceBorrowed
           THEN Abort("already borrowed: BorrowMutError")
           ELSE IF ~function_lookup.ok
           THEN Abort(UnwrapErr)
           ELSE IF function.kind = "Native"
           THEN /\ calls' = IF Len(calls) < MaxCalls
                            THEN Append(calls, Invocation(function)) ELSE calls
                /\ globals' = IF function.effect = <<>> THEN globals
                              ELSE Insert(globals, variable_name_to_identifier(function.effect),
                                          Integer(1))
                /\ pc' = pc + 1
                /\ status' = IF function.result = "" THEN "running" ELSE "panic"
                /\ error' = IF function.result = "" THEN error ELSE UnwrapErr
                /\ UNCHANGED <<ops, stack, locals, frames>>
           ELSE /\ frames' = Append(frames, [ops |-> ops, pc |-> pc + 1,
                                             stack |-> stack, locals |-> locals])
                /\ ops' = CalleeFrame(function).ops
                /\ pc' = CalleeFrame(function).pc
                /\ stack' = CalleeFrame(function).stack
                /\ locals' = CalleeFrame(function).locals
                /\ UNCHANGED <<globals, status, error, calls>>

\* Mutant of InterpretAgain: the frame of the call before is used again.
InterpretAgainSameFrame ==
    /\ status = "ok"
    /\ runs < MaxRuns
    /\ runs' = runs + 1
    /\ pc' = 0
    /\ stack' = <<>>
    /\ locals' = locals
    /\ status' = "running"
    /\ trace' = <<>>
    /\ UNCHANGED <<build, features, ops, globals, error, root_namespace, frames, calls, entries, outcome, threads, globals_lock>>

\* The host calls interpret again, with the same sequence, after an Ok
InterpretAgain ==
    /\ status = "ok"
    /\ runs < MaxRuns
    /\ runs' = runs + 1
    /\ pc' = 0
    /\ stack' = <<>>
    /\ locals' = EmptyMap
    /\ status' = "running"
    /\ trace' = <<>>
    /\ UNCHANGED <<build, features, ops, globals, error, root_namespace, frames, calls, entries, outcome, threads, globals_lock>>

\* Between two interpret calls the host registers a function at a path
\* that CallFunction has resolved before: the binding that marks Global s,
\* or the first binding again
RegisterAgain ==
    /\ status = "ok"
    /\ runs < MaxRuns
    /\ Len(entries) < MaxEntries
    /\ \E function \in {QuitFunction, MarkFunction} :
          LET path == <<QuitUpper>>
              r == add_function_entry(root_namespace, function, path)
          IN  /\ root_namespace' = r.ns
              /\ entries' = IF r.ok
                            THEN Append(entries, [path |-> path, function |-> function])
                            ELSE entries
              /\ outcome' = [op |-> "register", path |-> path, ok |-> r.ok,
                             error |-> r.error, function |-> function]
    /\ UNCHANGED <<build, features, ops, pc, stack, locals, globals, status, error,
                   trace, frames, calls, runs, threads, globals_lock>>

NextCall == Next \/ DoCallFunction \/ InterpretAgain \/ RegisterAgain

SpecCall == InitCall /\ [][NextCall]_vars

----------------------------------------------------------------------------
(* The host on the root namespace: registrations and lookups *)

\* The paths the host registers at and looks up
NamespacePaths ==
    {<<Quit>>, <<QuitUpper>>, <<RunName>>, <<MathName, Quit>>, <<MathUpper, QuitUpper>>,
     <<MissingName, Quit>>}

\* The functions the host registers
NamespaceFunctions == {QuitFunction, RunFunction}

\* A new machine, and one into whose root namespace the host has inserted
\* an empty child namespace (children is a public field)
InitNamespace ==
    /\ build \in {"debug", "release"}
    /\ features \in SUBSET {"fault-checks"}
    /\ ops = <<>>
    /\ pc = Fresh.pc
    /\ stack = Fresh.stack
    /\ locals = Fresh.locals
    /\ globals = Fresh.globals
    /\ status = Fresh.status
    /\ error = Fresh.error
    /\ trace = <<>>
    /\ root_namespace \in {NewNamespace, RootWithMath}
    /\ frames = <<>>
    /\ calls = <<>>
    /\ runs = 0
    /\ entries = <<>>
    /\ outcome = NoOutcome
    /\ threads = <<>>
    /\ globals_lock = "free"

\* vm.root_namespace.borrow_mut().add_function_entry(function, &path)
Register ==
    /\ Len(entries) < MaxEntries
    /\ \E function \in NamespaceFunctions : \E path \in NamespacePaths :
          LET r == add_function_entry(root_namespace, function, path)
          IN  /\ root_namespace' = r.ns
              /\ entries' = IF r.ok
                            THEN Append(entries, [path |-> path, function |-> function])
                            ELSE entries
              /\ outcome' = [op |-> "register", path |-> path, ok |-> r.ok,
                             error |-> r.error, function |-> function]
    /\ UNCHANGED <<build, features, ops, pc, stack, locals, globals, status, error,
                   trace, frames, calls, runs, threads, globals_lock>>

\* lookup_function_cached(&path) and lookup_function_uncached(path)
Lookup ==
    /\ \E path \in NamespacePaths : \E op \in {"cached", "uncached"} :
          LET r == IF op = "cached"
                   THEN lookup_function_cached(root_namespace, path)
                   ELSE lookup_function_uncached(root_namespace, path)
          IN  outcome' = [op |-> op, path |-> path, ok |-> r.ok,
                          error |-> r.error, function |-> r.function]
    /\ UNCHANGED <<build, features, ops, pc, stack, locals, globals, status, error,
                   trace, root_namespace, frames, calls, runs, entries,
                   threads, globals_lock>>

NextNamespace == Register \/ Lookup

SpecNamespace == InitNamespace /\ [][NextNamespace]_vars

----------------------------------------------------------------------------
(* Shared mode (feature "async"): several threads call interpret on one    *)
(* machine.  The frame of a call belongs to its thread; vm.globals is an   *)
(* Arc<RwLock<..>> that deref locks for reading and perform_assignment for *)
(* writing, each for the time of the access.                               *)

\* A stack entry that deref reads from vm.globals
IsGlobalEntry(entry) == entry.sv = "Variable" /\ entry.ref.scope = "Global"

\* How many entries the arm of an instruction pops and reads through as_raw
ReadCount(i) ==
    IF i.op \in BinaryOps \cup {"Concat", "Divide", "Modulus"} THEN 2
    ELSE IF i.op \in {"JumpTrue", "JumpFalse", "Not"} THEN 1
    ELSE 0

\* Assignment reaches perform_assignment: two entries, the top a Variable
Assigns(m, i) ==
    /\ i.op = "Assignment"
    /\ Len(m.stack) >= 2
    /\ as_variable(Top(m.stack)).ok

\* The arm of the instruction locks vm.globals
TouchesGlobals(m, i) ==
    \/ /\ ReadCount(i) > 0
       /\ Len(m.stack) >= ReadCount(i)
       /\ \E k \in 1 .. ReadCount(i) : IsGlobalEntry(m.stack[Len(m.stack) + 1 - k])
    \/ /\ Assigns(m, i)
       /\ \/ as_variable(Top(m.stack)).value.scope = "Global"
          \/ IsGlobalEntry(Top(Rest(m.stack)))

\* perform_assignment on a Global holds vm.globals.write() while
\* rhs.as_raw runs, and deref of a Global calls vm.globals.read() on the
\* same thread
LocksTwice(m, i) ==
    /\ Assigns(m, i)
    /\ as_variable(Top(m.stack)).value.scope = "Global"
    /\ IsGlobalEntry(Top(Rest(m.stack)))

\* The frame of a thread that has just called interpret on instrs
NewThread(instrs) ==
    [ops |-> instrs, pc |-> Fresh.pc, stack |-> Fresh.stack, locals |-> Fresh.locals,
     status |-> Fresh.status, error |-> Fresh.error]

\* The machine as the thread sees it
ThreadMachine(t) ==
    [pc |-> threads[t].pc, stack |-> threads[t].stack, locals |-> threads[t].locals,
     globals |-> globals, status |-> threads[t].status, error |-> threads[t].error]

\* The frame of the thread after its arm
ThreadAfter(t, m) ==
    [threads EXCEPT ![t] = [ops |-> threads[t].ops, pc |-> m.pc, stack |-> m.stack,
                            locals |-> m.locals, status |-> m.status,
                            error |-> m.error]]

\* %g = 1; %g = %g + 1, on the Global g
IncrementProgram(g) ==
    << PushInteger(1), PushVariable(GlobalVar(g)), Op("Assignment"), Op("Pop"),
       PushVariable(GlobalVar(g)), PushInteger(1), Op("Add"),
       PushVariable(GlobalVar(g)), Op("Assignment"), Op("Pop") >>

\* tests.rs test_vm, the end of a sequence: a Local is written to the Global
PublishProgram(g) ==
    << PushInteger(5), PushVariable(LocalVar(NameX)), Op("Assignment"), Op("Pop"),
       PushVariable(LocalVar(NameX)), PushVariable(GlobalVar(g)), Op("Assignment") >>

\* %g = 3; %g = %g, the right-hand side a Reference to the Global
CopyProgram(g) ==
    << PushInteger(3), PushVariable(GlobalVar(g)), Op("Assignment"), Op("Pop"),
       PushVariable(GlobalVar(g)), PushVariable(GlobalVar(g)), Op("Assignment") >>

ProgramsOn(g) == {IncrementProgram(g), PublishProgram(g), CopyProgram(g)}

\* The Global that each thread writes
ThreadGlobals == <<NameX, NameS>>

ThreadIds == DOMAIN ThreadGlobals

InitShared ==
    /\ build \in {"debug", "release"}
    /\ features \in {{"async"}, {"async", "fault-checks"}}
    /\ ops = <<>>
    /\ pc = Fresh.pc
    /\ stack = Fresh.stack
    /\ locals = Fresh.locals
    /\ globals = Fresh.globals
    /\ status = Fresh.status
    /\ error = Fresh.error
    /\ trace = <<>>
    /\ root_namespace = NewNamespace
    /\ frames = <<>>
    /\ calls = <<>>
    /\ runs = 0
    /\ entries = <<>>
    /\ outcome = NoOutcome
    /\ \E first \in ProgramsOn(ThreadGlobals[1]) : \E second \in ProgramsOn(ThreadGlobals[2]) :
          threads = <<NewThread(first), NewThread(second)>>
    /\ globals_lock = "free"

\* One iteration of the loop of the interpret call of thread t
ThreadStep(t) ==
    /\ threads[t].status = "running"
    /\ threads[t].pc < Len(threads[t].ops)
    /\ LET m == ThreadMachine(t)
           i == threads[t].ops[threads[t].pc + 1]
           next == Advance(m)
       IN  IF TouchesGlobals(m, i) /\ globals_lock = "held"
           THEN FALSE
           ELSE IF TouchesGlobals(m, i) /\ globals_lock = "poisoned"
           THEN /\ threads' = ThreadAfter(t, Panic(next, "PoisonError"))
                /\ UNCHANGED <<globals, globals_lock>>
           ELSE IF LocksTwice(m, i)
           THEN \/ /\ threads' = ThreadAfter(t, [next EXCEPT !.status = "blocked"])
                   /\ globals_lock' = "held"
                   /\ UNCHANGED globals
                \/ /\ threads' = ThreadAfter(t, Panic(next, "rwlock read lock would result in deadlock"))
                   /\ globals_lock' = "poisoned"
                   /\ UNCHANGED globals
           ELSE /\ threads' = ThreadAfter(t, Iterate(m, threads[t].ops))
                /\ globals' = Iterate(m, threads[t].ops).globals
                /\ UNCHANGED globals_lock
    /\ UNCHANGED <<build, features, ops, pc, stack, locals, status, error, trace,
                   root_namespace, frames, calls, runs, entries, outcome>>

\* The interpret call of thread t returns Ok(())
ThreadReturn(t) ==
    /\ threads[t].status = "running"
    /\ threads[t].pc >= Len(threads[t].ops)
    /\ threads' = [threads EXCEPT ![t].status = "ok"]
    /\ UNCHANGED <<build, features, ops, pc, stack, locals, globals, status, error, trace,
                   root_namespace, frames, calls, runs, entries, outcome, globals_lock>>

NextShared == \E t \in ThreadIds : ThreadStep(t) \/ ThreadReturn(t)

SpecShared == InitShared /\ [][NextShared]_vars

----------------------------------------------------------------------------
(* The counted loop near the end of the exact range of f32.                *)
(*                                                                         *)
(* A run of LoopFixture(n, c) reaches the head of its loop for the k-th   *)
(* time, 1 <= k < n, k <= F32Exact, c * k <= F32Exact, with an empty       *)
(* stack and the locals counter = Float(k), result = Float(c * k),         *)
(* iterations = Integer(n): every addition up to there is exact.           *)
(* C5_LoopInvariant checks this form on the runs that start at index 0.    *)
(* A count near F32Exact takes some 3 * 10^8 steps to get there, so its    *)
(* run is taken up at the loop head after Skipped(n) iterations, and the   *)
(* history then holds what was executed from there on.                     *)

\* The iteration counts: the small ones, run from index 0, and the ones
\* around F32Exact
LoopCounts == (1..MaxIterations) \cup ((F32Exact - 1)..(F32Exact + 2))

\* The iterations a run with this count has behind it when it is taken up
Skipped(n) == IF n <= MaxIterations THEN 0 ELSE F32Exact - 2

\* What the body adds to result
LoopConstants(n) == IF n <= MaxIterations THEN {0, 1, 3} ELSE {0, 1}

LoopLocals(counter, result, n) ==
    Insert(Insert(Insert(EmptyMap,
        variable_name_to_identifier(NameCounter), counter),
        variable_name_to_identifier(NameResult), result),
        variable_name_to_identifier(NameIterations), Integer(n))

\* The machine at the head of the loop after k iterations
LoopHead(n, c, k) ==
    [pc |-> LoopStart, stack |-> <<>>,
     locals |-> LoopLocals(IF k = 0 THEN Integer(0) ELSE Float(k), Float(c * k), n),
     globals |-> EmptyMap, status |-> "running", error |-> ""]

InitLoop ==
    /\ build \in {"debug", "release"}
    /\ features \in SUBSET {"fault-checks"}
    /\ trace = <<>>
    /\ root_namespace = NewNamespace
    /\ frames = <<>>
    /\ calls = <<>>
    /\ runs = 1
    /\ entries = <<>>
    /\ outcome = NoOutcome
    /\ threads = <<>>
    /\ globals_lock = "free"
    /\ \E n \in LoopCounts : \E c \in LoopConstants(n) :
          LET m == IF Skipped(n) = 0 THEN Fresh ELSE LoopHead(n, c, Skipped(n))
          IN  /\ ops = LoopFixture(n, c)
              /\ pc = m.pc
              /\ stack = m.stack
              /\ locals = m.locals
              /\ globals = m.globals
              /\ status = m.status
              /\ error = m.error

\* interpret runs its loop until it returns: no opcode suspends
SpecLoop == InitLoop /\ [][Next]_vars /\ WF_vars(Next)

----------------------------------------------------------------------------
(* What the claims speak of *)

BranchOps == {"Jump", "JumpTrue", "JumpFalse"}

\* A sequence without a branch instruction
Straight(instrs) == \A i \in DOMAIN instrs : instrs[i].op \notin BranchOps

\* The indices 0 .. n-1 in order
InOrder(n) == [i \in 1..n |-> i - 1]

\* The history holds every instruction executed so far
Recorded == Len(trace) < MaxTrace

Faulted == status \in {"err", "panic"}

\* The entry a push instruction puts on the stack
EntryOf(push) ==
    CASE push.op = "PushFloat" -> Raw(Float(push.num))
      [] push.op = "PushInteger" -> Raw(Integer(push.num))
      [] push.op = "PushString" -> Raw(String(push.str))
      [] push.op = "PushVariable" -> Variable(push.ref)

EntriesOf(pushes) == [i \in DOMAIN pushes |-> EntryOf(pushes[i])]

\* The machine after at most n iterations of the loop on instrs
RECURSIVE Run(_, _, _)
Run(instrs, m, n) ==
    IF n = 0 \/ m.status # "running" \/ m.pc >= Len(instrs) THEN m
    ELSE Run(instrs, Iterate(m, instrs), n - 1)

----------------------------------------------------------------------------
(* C1 *)

\* C1: interpret starts with the counter at 0 and an empty frame; every
\* iteration fetches the instruction at the counter, advances the counter by
\* one and executes it; it returns success exactly when the counter is at or
\* past the length (an empty sequence at once, with nothing executed), and a
\* sequence without branches that does not fail has executed every index
\* once, in order, when it returns.
C1_InterpretLoop ==
    /\ pc = 0 /\ stack = <<>> /\ locals = EmptyMap /\ status = "running"
    /\ [][/\ status = "running"
          /\ IF pc >= Len(ops)
             THEN status' = "ok" /\ trace' = trace
             ELSE /\ status' # "ok"
                  /\ Recorded => trace' = Append(trace, pc)
                  /\ (status' = "running" /\ ops[pc + 1].op \notin BranchOps)
                        => pc' = pc + 1
          /\ (status' = "ok" /\ Straight(ops)) => trace' = InOrder(Len(ops))]_vars

\* A sequence of three instructions without a branch has returned success.
C1_Witness ==
    /\ status = "ok" /\ Len(ops) = 3 /\ Straight(ops) /\ trace = <<0, 1, 2>>

----------------------------------------------------------------------------
(* C2 *)

\* C2: for every reference R (Local or Global) and every scalar V, running
\* `Push V; PushVariable R; Assignment; Pop` does not fail, leaves R bound to
\* V and leaves the operand stack as it was before the four instructions.
C2_AssignBindsValue ==
    \A below \in Prefixes, push \in ScalarPushes, ref \in References :
        ops = AssignFixture(below, push, ref) =>
            /\ ~Faulted
            /\ pc = Len(ops) =>
                /\ deref(ref, globals, locals) = [ok |-> TRUE, value |-> EntryOf(push).raw]
                /\ stack = EntriesOf(below)

\* The four instructions have run on a Global, above a stack of two entries.
C2_Witness ==
    /\ ops = AssignFixture(<<PushString(<<"B">>), PushVariable(LocalVar(NameS))>>,
                           PushString(<<"A", "B">>), GlobalVar(NameX))
    /\ pc = Len(ops) /\ status = "ok"
    /\ globals[variable_name_to_identifier(NameX)] = String(<<"A", "B">>)
    /\ Len(stack) = 2

----------------------------------------------------------------------------
(* C3 *)

\* C3: after `Push v; Push u; Swap` the entry u that was on top is second
\* from the top, the entry v is on top, and the entries below are unchanged.
C3_SwapExchanges ==
    \A below \in Prefixes, first \in EntryPushes, second \in EntryPushes :
        (ops = SwapFixture(below, first, second) /\ pc = Len(ops) /\ ~Faulted) =>
            stack = EntriesOf(below) \o <<EntryOf(second), EntryOf(first)>>

----------------------------------------------------------------------------
(* C4 *)

\* The entry is a Reference to a variable without a binding
Unset(entry) ==
    entry.sv = "Variable" /\ ~deref(entry.ref, globals, locals).ok

\* The instruction, run on the stack s, dereferences an unset variable: the
\* value of an Assignment to a Reference, an operand of a binary operator or
\* of Concat, the operand of Not or of a conditional jump.
ReadsUnset(i, s) ==
    \/ /\ i.op = "Assignment" /\ Len(s) >= 2
       /\ Top(s).sv = "Variable" /\ Unset(s[Len(s) - 1])
    \/ /\ i.op \in BinaryOps \cup {"Concat"} /\ Len(s) >= 2
       /\ (Unset(Top(s)) \/ Unset(s[Len(s) - 1]))
    \/ /\ i.op \in {"Not", "JumpTrue", "JumpFalse"} /\ Len(s) >= 1
       /\ Unset(Top(s))

\* C4: reading a variable that was never assigned never makes interpret
\* fail: a Reference to it dereferences to the empty string, no instruction
\* that dereferences it faults, and
\* `PushVariable(ref); PushString(""); StringEquals` leaves Boolean true on
\* top of the stack.
C4_UnsetReadsEmpty ==
    /\ [](/\ \A ref \in References :
                ops = UnsetReadFixture(ref) =>
                    /\ ~Faulted
                    /\ pc = Len(ops) => stack = <<Raw(Boolean(TRUE))>>
          /\ \A i \in DOMAIN stack :
                Unset(stack[i]) => as_string(as_raw(stack[i], globals, locals)) = <<>>)
    /\ [][(/\ status = "running" /\ pc < Len(ops)
           /\ ReadsUnset(ops[pc + 1], stack))
          => status' \notin {"err", "panic"}]_vars

----------------------------------------------------------------------------
(* C6 *)

\* C6: the global-increment sequence runs without a fault and leaves
\* Global x bound to a value that coerces to the integer 1.
C6_GlobalIncrement ==
    ops = GlobalIncrementFixture =>
        /\ ~Faulted
        /\ pc = Len(ops) =>
              /\ deref(GlobalVar(NameX), globals, locals).ok
              /\ as_integer(as_raw(Variable(GlobalVar(NameX)), globals, locals)) = 1

\* The sequence has returned, with x bound to the Float the Add pushed.
C6_Witness ==
    /\ ops = GlobalIncrementFixture /\ status = "ok" /\ stack = <<>>
    /\ globals[variable_name_to_identifier(NameX)] = Float(1)

----------------------------------------------------------------------------
(* C7 *)

ABC == <<"A", "B", "C">>

CAB == <<"C", "A", "B">>

\* C7 as claimed: the string-concat sequence runs without a fault and leaves
\* Local s bound to "ABC", the string pushed first followed by the string
\* pushed second.
C7_ConcatPushOrder ==
    ops = ConcatFixture =>
        /\ ~Faulted
        /\ pc = Len(ops) =>
              deref(LocalVar(NameS), globals, locals) = [ok |-> TRUE, value |-> String(ABC)]

\* C7 as amended: the string-concat sequence runs without a fault and leaves
\* Local s bound to "CAB": Concat yields the string popped first (the one
\* pushed second) followed by the string popped second (the one pushed first).
C7_ConcatPopOrder ==
    ops = ConcatFixture =>
        /\ ~Faulted
        /\ pc = Len(ops) =>
              deref(LocalVar(NameS), globals, locals) = [ok |-> TRUE, value |-> String(CAB)]

\* The sequence has returned with s bound.
C7_Witness ==
    /\ ops = ConcatFixture /\ status = "ok" /\ stack = <<>>
    /\ variable_name_to_identifier(NameS) \in DOMAIN locals

----------------------------------------------------------------------------
(* C8 *)

IsJumpTo(i, kind) == i.op = "Jump" /\ i.target.kind = kind

\* The instruction executed last, when the history is complete
LastExecuted == ops[trace[Len(trace)] + 1]

\* C8: Jump(Absolute(k)) sets the counter to k and leaves the stack and the
\* bindings as they were; then, if k is less than the length, the
\* instruction at index k is the next one executed, and otherwise interpret
\* returns success without executing another instruction.
C8_AbsoluteJump ==
    [][/\ (status = "running" /\ pc < Len(ops) /\ IsJumpTo(ops[pc + 1], "Absolute"))
            => /\ pc' = ops[pc + 1].target.value
               /\ status' = "running"
               /\ stack' = stack /\ locals' = locals /\ globals' = globals
       /\ (status = "running" /\ trace # <<>> /\ Recorded
             /\ IsJumpTo(LastExecuted, "Absolute"))
            => IF LastExecuted.target.value < Len(ops)
               THEN trace' = Append(trace, LastExecuted.target.value)
               ELSE /\ status' = "ok" /\ trace' = trace
                    /\ stack' = stack /\ locals' = locals /\ globals' = globals]_vars

\* An absolute jump over the next instruction, and its target executed next,
\* with an entry on the stack and a local bound.
C8_Witness ==
    /\ Len(trace) >= 2 /\ Recorded
    /\ IsJumpTo(ops[trace[Len(trace) - 1] + 1], "Absolute")
    /\ trace[Len(trace)] = ops[trace[Len(trace) - 1] + 1].target.value
    /\ trace[Len(trace)] > trace[Len(trace) - 1] + 1
    /\ stack # <<>> /\ locals # EmptyMap

----------------------------------------------------------------------------
(* C9 *)

\* The instruction at the counter is a branch that is about to be taken.
Taken(i) ==
    \/ i.op = "Jump"
    \/ /\ i.op \in {"JumpTrue", "JumpFalse"}
       /\ stack # <<>>
       /\ as_boolean(as_raw(Top(stack), globals, locals)) = (i.op = "JumpTrue")

\* C9: a taken jump with Relative(d) at index i sets the counter to
\* (i + 1) + d, for every signed d, the positive ones included (checked
\* wherever (i + 1) + d is an index, that is, not negative).
C9_RelativeAddsOffset ==
    [][(status = "running" /\ pc < Len(ops) /\ ops[pc + 1].target.kind = "Relative"
          /\ (pc + 1) + ops[pc + 1].target.value >= 0
          /\ Taken(ops[pc + 1]))
         => (status' = "running" /\ pc' = (pc + 1) + ops[pc + 1].target.value)]_vars

----------------------------------------------------------------------------
(* C10 *)

\* The sequence with every Jump(Relative(0)) and NOP replaced by the other
Twin(instrs) ==
    [i \in DOMAIN instrs |->
        IF instrs[i] = JumpTo(Relative(0)) THEN NOP
        ELSE IF instrs[i] = NOP THEN JumpTo(Relative(0))
        ELSE instrs[i]]

\* C10: Jump(Relative(0)) is observationally equal to NOP: the sequence with
\* one replaced by the other, at any index, yields the same succession of
\* counters, stacks and bindings, and the same outcome.
C10_RelativeZeroIsNOP ==
    Recorded =>
        LET twin == Run(Twin(ops), Fresh, Len(trace))
        IN  /\ twin.pc = pc
            /\ twin.stack = stack
            /\ twin.locals = locals
            /\ twin.globals = globals
            /\ twin.status = (IF status = "ok" THEN "running" ELSE status)

\* A sequence that has executed a Jump(Relative(0)) and gone on to push.
C10_Witness ==
    /\ Recorded /\ status = "ok" /\ stack # <<>>
    /\ \E n \in DOMAIN trace : ops[trace[n] + 1] = JumpTo(Relative(0))
    /\ \E n \in DOMAIN ops : ops[n] = NOP

----------------------------------------------------------------------------
(* C5 *)

\* The count and the constant of the loop fixture that is running
LoopCount == ops[9].num

LoopConstant == ops[15].num

\* How often the body has been entered: the iterations behind the run when
\* it was taken up, and the visits of the loop head recorded since
BodyCount ==
    Skipped(LoopCount) + Cardinality({i \in DOMAIN trace : trace[i] = LoopStart})

CounterValue == as_raw(Variable(LocalVar(NameCounter)), globals, locals)

\* The run has returned with the counter at the count, after as many
\* bodies, and with the local result copied to the global result.
LoopResult ==
    /\ status = "ok"
    /\ pc = Len(ops)
    /\ as_integer(CounterValue) = LoopCount
    /\ BodyCount = LoopCount
    /\ deref(LocalVar(NameResult), globals, locals).ok
    /\ deref(GlobalVar(NameResult), globals, locals)
          = deref(LocalVar(NameResult), globals, locals)

\* C5 as claimed, on the runs that have ended: for every count N >= 1 the
\* loop fixture ends with success, the body executed exactly N times, the
\* counter equal to N and the local result copied to the global result.
C5_LoopEveryCount ==
    (status # "running" /\ LoopCount >= 1) => LoopResult

\* C5 as amended: for every count N with 1 <= N <= 2^24 (16777216, up to
\* where an f32 counter can be stepped by 1) the loop fixture terminates,
\* with the body executed exactly N times, the counter equal to N and the
\* local result copied to the global result; whenever the run is at the head
\* of its loop the counter holds the number of bodies executed.
C5_LoopBoundedCount ==
    /\ [](LoopCount \in 1..F32Exact =>
            /\ status # "running" => LoopResult
            /\ (status = "running" /\ pc = LoopStart /\ Recorded) =>
                  /\ BodyCount < LoopCount
                  /\ Machine = LoopHead(LoopCount, LoopConstant, BodyCount))
    /\ (LoopCount \in 1..F32Exact) ~> (status = "ok")

\* A run from index 0 has returned after two bodies, result at 6.
C5_Witness ==
    /\ LoopCount = 2 /\ LoopConstant = 3 /\ LoopResult
    /\ Len(trace) = 12 + 2 * 18 + 3
    /\ as_raw(Variable(GlobalVar(NameResult)), globals, locals) = Float(6)

----------------------------------------------------------------------------
(* C11 *)

TightJump == JumpTo(Relative(-1))

\* C11: Jump(Relative(-1)) at index i sets the counter back to i and leaves
\* the stack and the bindings as they were; once it has been executed it is
\* the instruction at the counter for ever and interpret never returns.
C11_TightLoop ==
    /\ [][(status = "running" /\ pc < Len(ops) /\ ops[pc + 1] = TightJump)
            => /\ pc' = pc /\ status' = "running"
               /\ stack' = stack /\ locals' = locals /\ globals' = globals]_vars
    /\ []((trace # <<>> /\ LastExecuted = TightJump)
            => /\ status = "running"
               /\ pc = trace[Len(trace)]
               /\ ops[pc + 1] = TightJump)

\* The jump at index 4 has been executed again and again, over a stack and a
\* local that the three instructions before it left.
C11_Witness ==
    /\ ops = JumpFixture(TightJump)
    /\ Len(trace) >= 10
    /\ \A k \in 5..Len(trace) : trace[k] = 4
    /\ stack # <<>> /\ locals # EmptyMap /\ status = "running"

----------------------------------------------------------------------------
(* C12 *)

\* The entry is a Reference to a variable that holds 0 or "", or that was
\* never written
FalseReference(entry) ==
    /\ entry.sv = "Variable"
    /\ LET d == deref(entry.ref, globals, locals)
       IN  ~d.ok \/ d.value \in {Integer(0), Float(0), String(<<>>)}

\* C12: JumpTrue and JumpFalse pop exactly one entry, dereference it if it
\* is a Reference and coerce it to boolean; JumpTrue branches as Jump does to
\* its address iff the boolean is true, JumpFalse iff it is false, and
\* otherwise execution continues at the next index.  A Reference to a
\* variable holding 0 or "", or never written, counts as false.
C12_ConditionalJump ==
    [][(status = "running" /\ pc < Len(ops) /\ stack # <<>>
          /\ ops[pc + 1].op \in {"JumpTrue", "JumpFalse"})
         => LET i == ops[pc + 1]
                b == as_boolean(as_raw(Top(stack), globals, locals))
                popped == [Machine EXCEPT !.pc = pc + 1, !.stack = Rest(stack)]
            IN  /\ stack' = Rest(stack) /\ locals' = locals /\ globals' = globals
                /\ FalseReference(Top(stack)) => ~b
                /\ IF b = (i.op = "JumpTrue")
                   THEN Machine' = ExecJump(popped, i.target)
                   ELSE pc' = pc + 1 /\ status' = "running"]_vars

\* A JumpFalse on a Reference to a Local never written has gone from index 6
\* to index 8, with the string below the Reference left on the stack.
C12_Witness ==
    /\ ops = CondRefFixture(NOP, LocalVar(NameX), JumpFalseTo(Absolute(8)))
    /\ Len(trace) >= 2 /\ Recorded
    /\ trace[Len(trace) - 1] = 6 /\ trace[Len(trace)] = 8
    /\ stack = <<Raw(String(<<"B">>))>>

----------------------------------------------------------------------------
(* C17 *)

\* The number of entries the instruction pops
Pops(i) ==
    CASE i.op \in {"Pop", "Not", "JumpTrue", "JumpFalse"} -> 1
      [] i.op \in BinaryOps \cup {"Swap", "Assignment", "Concat"} -> 2
      [] OTHER -> 0

\* C17: with the fault checks compiled in, every opcode that pops, executed
\* on a stack with fewer entries than it pops, makes interpret return an
\* error description to the host; the process is not terminated.
C17_UnderflowReturnsError ==
    [][(FaultChecks /\ status = "running" /\ pc < Len(ops)
          /\ Len(stack) < Pops(ops[pc + 1]))
         => (status' = "err" /\ error' # "")]_vars

----------------------------------------------------------------------------
(* C18 *)

\* C18: an Assignment whose first-popped operand is not a Reference makes
\* interpret return an error description to the host, and creates or changes
\* no binding.
C18_AssignmentToValue ==
    [][(status = "running" /\ pc < Len(ops) /\ ops[pc + 1].op = "Assignment"
          /\ Len(stack) >= 2 /\ Top(stack).sv = "Raw")
         => (status' = "err" /\ error' # ""
             /\ locals' = locals /\ globals' = globals)]_vars

----------------------------------------------------------------------------
(* C13 to C16 *)

\* The instruction at the counter is a CallFunction
AtCall == status = "running" /\ pc < Len(ops) /\ ops[pc + 1].op = "CallFunction"

\* What is registered at the path of the CallFunction at the counter
Callee == lookup_function_uncached(root_namespace, ops[pc + 1].path)

\* The sequence the host gave to interpret
HostOps == IF frames = <<>> THEN ops ELSE frames[1].ops

\* How many CallFunction instructions the sequence holds
CallCount(instrs) == Cardinality({i \in DOMAIN instrs : instrs[i].op = "CallFunction"})

\* Every CallFunction of the sequence names a native binding that succeeds
CallsSucceed(instrs) ==
    \A i \in DOMAIN instrs :
        instrs[i].op = "CallFunction" =>
            LET r == lookup_function_uncached(root_namespace, instrs[i].path)
            IN  r.ok /\ r.function.kind = "Native" /\ r.function.result = ""

\* C13: when a native function is registered at path p, each execution of
\* CallFunction(p) invokes its binding exactly once, with the machine and the
\* current frame, leaves the operand stack as the binding left it and, on
\* success, continues at the next instruction; repeated interpret calls of
\* the same sequence on the same machine each succeed and each invoke it
\* once.
C13_NativeCall ==
    /\ [][(AtCall /\ Callee.ok /\ Callee.function.kind = "Native")
            => /\ calls' = Append(calls, Invocation(Callee.function))
               /\ stack' = stack /\ locals' = locals
               /\ Callee.function.result = "" => (status' = "running" /\ pc' = pc + 1)]_vars
    /\ [](CallsSucceed(HostOps)
            => /\ status \in {"running", "ok"}
               /\ status = "ok" => Len(calls) = runs * CallCount(HostOps))

\* C14: a CallFunction whose path names no registered function (a missing
\* namespace or a missing function) ends the interpret call with an error
\* that is returned to the host; no instruction after it is executed.
C14_MissingFunction ==
    [][(AtCall /\ ~Callee.ok)
         => /\ status' = "err" /\ error' = Callee.error
            /\ frames = <<>>]_vars

\* C15: when the native binding that CallFunction invokes returns a failure
\* with description e, interpret stops at that instruction and returns e to
\* the host; no later instruction is executed.
C15_NativeFailure ==
    [][(AtCall /\ Callee.ok /\ Callee.function.kind = "Native"
          /\ Callee.function.result # "")
         => (status' = "err" /\ error' = Callee.function.result)]_vars

\* C16: a call of a VirtualFunction runs its sequence from index 0 in a
\* fresh frame, with an empty stack and empty locals; the callee neither
\* reads nor writes the locals and the stack of its caller (the body that
\* reads Local x sees it unset whatever the caller bound); when the callee
\* returns, the caller continues at its next instruction with its stack and
\* locals as they were before the CallFunction, and only globals may differ.
C16_VirtualCall ==
    /\ [][(AtCall /\ Callee.ok /\ Callee.function.kind = "Virtual" /\ status' = "running")
            => /\ ops' = Callee.function.instructions
               /\ pc' = 0 /\ stack' = <<>> /\ locals' = EmptyMap
               /\ frames' = Append(frames, [ops |-> ops, pc |-> pc + 1,
                                            stack |-> stack, locals |-> locals])]_vars
    /\ [][(status = "running" /\ frames # <<>>)
            => IF pc >= Len(ops)
               THEN /\ status' = "running"
                    /\ ops' = Top(frames).ops /\ pc' = Top(frames).pc
                    /\ stack' = Top(frames).stack /\ locals' = Top(frames).locals
                    /\ frames' = Rest(frames)
               ELSE frames' = frames]_vars
    /\ [](ops = RunBody /\ pc >= 3 =>
            as_raw(Variable(GlobalVar(NameS)), globals, locals) = String(<<>>))

\* The caller bound its Local x to 5 and kept two entries on its stack, called the
\* function that reads and writes its own Local x, and has gone on to the
\* instruction after the call.
C16_Witness ==
    /\ frames = <<>> /\ status = "running" /\ pc = 5 /\ Len(ops) = 6
    /\ ops[5] = CallFunction(<<RunName>>)
    /\ stack = <<Raw(Integer(5)), Variable(LocalVar(NameX))>>
    /\ locals = Insert(EmptyMap, variable_name_to_identifier(NameX), Integer(5))
    /\ globals = Insert(EmptyMap, variable_name_to_identifier(NameS), String(<<>>))

\* The path with every name lowercased
LowerPath(path) == [i \in 1 .. Len(path) |-> to_lowercase(path[i])]

\* The registrations that returned Ok(()) at a path that differs from `path`
\* in letter case at most
EntriesAt(path) == {i \in 1 .. Len(entries) : LowerPath(entries[i].path) = LowerPath(path)}

\* The last of them
LastEntryAt(path) == CHOOSE i \in EntriesAt(path) : \A j \in EntriesAt(path) : j <= i

\* C19: registering a function at a path longer than 1 whose intermediate
\* namespace does not exist yet succeeds, creates the missing namespace, and
\* a following lookup of the same path returns the registered function.
C19_RegistrationCreatesNamespaces ==
    [][(/\ outcome'.op = "register"
        /\ Len(outcome'.path) > 1
        /\ to_lowercase(outcome'.path[1]) \notin DOMAIN root_namespace.children)
         => /\ outcome'.ok
            /\ to_lowercase(outcome'.path[1]) \in DOMAIN root_namespace'.children
            /\ lookup_function_uncached(root_namespace', outcome'.path)
                 = [ok |-> TRUE, error |-> "", function |-> outcome'.function]]_vars

\* C20: registration and lookup are keyed by lowercased names. A cached or
\* uncached lookup of a path returns the function of the last successful
\* registration at a path that differs from it in letter case at most, and
\* when there was none it returns Err with a lookup error and no function.
C20_LowercasedKeys ==
    outcome.op \in {"cached", "uncached"} =>
        IF EntriesAt(outcome.path) # {}
        THEN /\ outcome.ok
             /\ outcome.function = entries[LastEntryAt(outcome.path)].function
        ELSE /\ ~outcome.ok
             /\ outcome.error \in {"Namespace Lookup Failed", "Function Lookup Failed"}
             /\ outcome.function = NoFunction

\* The host registered the native binding at m::quit and then the virtual
\* function at M::QUIT, and the cached lookup of m::quit returned the
\* virtual function.
C20_Witness ==
    /\ entries = << [path |-> <<MathName, Quit>>, function |-> QuitFunction],
                    [path |-> <<MathUpper, QuitUpper>>, function |-> RunFunction] >>
    /\ outcome = [op |-> "cached", path |-> <<MathName, Quit>>, ok |-> TRUE,
                  error |-> "", function |-> RunFunction]

\* C21: the cached lookup of a path returns what the uncached walk of the
\* tree returns for it, whatever was registered and resolved before; a
\* CallFunction that invokes a native binding invokes the one that the
\* uncached walk finds at that moment, so after a function is registered
\* again at a path already resolved the call invokes the new function.
C21_CachedIsUncached ==
    /\ [](\A path \in CallPaths :
            lookup_function_cached(root_namespace, path)
              = lookup_function_uncached(root_namespace, path))
    /\ [][calls' # calls
            => /\ AtCall /\ Callee.ok
               /\ calls' = Append(calls, Invocation(Callee.function))]_vars

\* The first interpret call resolved quit to the first binding and invoked
\* it; the host registered the marking binding at QUIT; the second interpret
\* call of the same sequence invoked the marking binding.
C21_Witness ==
    /\ ops = <<CallFunction(<<Quit>>)>>
    /\ entries = << [path |-> <<QuitUpper>>, function |-> MarkFunction] >>
    /\ Len(calls) = 2
    /\ calls[1].function = QuitFunction.id /\ calls[1].run = 1
    /\ calls[2].function = MarkFunction.id /\ calls[2].run = 2
    /\ status = "ok"

\* The value bound to a Local or Global name, "" when there is none
Bound(map, name) == as_raw(Variable(LocalVar(name)), EmptyMap, map)

\* C22: globals outlive interpret calls and locals do not. When interpret
\* returns Ok and when the host calls it again the globals stay as they are,
\* and the new call starts with empty locals: the sequence that reads
\* Global s and Local x before it assigns 7 to both reads "" for both in the
\* first call, and 7 for the Global and "" for the Local in a later call.
C22_GlobalsOutliveLocalsDoNot ==
    /\ [][(runs' = runs + 1) => (globals' = globals /\ locals' = EmptyMap)]_vars
    /\ [][(status = "running" /\ status' = "ok") => globals' = globals]_vars
    /\ []((ops = CarryProgram /\ frames = <<>> /\ status = "running" /\ pc >= 3)
            => Bound(locals, NameCounter)
                 = IF runs = 1 THEN String(<<>>) ELSE Integer(7))
    /\ []((ops = CarryProgram /\ frames = <<>> /\ status = "running" /\ pc >= 7)
            => Bound(locals, NameResult) = String(<<>>))

\* The second call has read both: 7 from Global s, "" from Local x.
C22_Witness ==
    /\ ops = CarryProgram /\ runs = 2 /\ pc = 8 /\ status = "running"
    /\ Bound(locals, NameCounter) = Integer(7)
    /\ Bound(locals, NameResult) = String(<<>>)
    /\ variable_name_to_identifier(NameResult) \in DOMAIN locals
    /\ Bound(globals, NameS) = Integer(7)

\* What the interpret call of thread t leaves in its Global when it runs
\* alone on a new machine
Alone(t) ==
    Bound(Run(threads[t].ops, Fresh, Len(threads[t].ops)).globals, ThreadGlobals[t])

\* A call that will never return: its thread waits for ever for a lock, or
\* a panic has ended it
Stuck(t) == threads[t].status \in {"blocked", "panic"}

\* C23: in shared mode, when the threads run interpret on one machine and
\* each writes its own Global, every call terminates (none is blocked for
\* ever or ended by a panic: the sequences have no loops), and when all
\* have returned every Global has the value that its sequence alone gives
\* it, under every interleaving.
C23_DisjointWriters ==
    /\ \A t \in DOMAIN threads : ~Stuck(t)
    /\ (\A t \in DOMAIN threads : threads[t].status = "ok")
          => \A t \in DOMAIN threads : Bound(globals, ThreadGlobals[t]) = Alone(t)

\* The loop of interpret is about to fetch an instruction
AtFetch == status = "running" /\ pc < Len(ops)

\* C24: an interpret call holds no lock or exclusive borrow across opcodes.
\* Whenever an instruction is fetched, those of a function body entered
\* through CallFunction included, the thread holds neither the lock on the
\* globals nor the borrow of the root namespace.
C24_NothingHeldAtFetch ==
    AtFetch => (~NamespaceBorrowed /\ globals_lock = "free")

\* C25: when interpret ends with an error, the globals are what the
\* instructions executed before had made them, and they and the namespace
\* stay so: the step that returns Err changes neither, nothing changes them
\* afterwards, and the sequence that fails at its second Pop has left 7 in
\* Global x and the mark of the binding it called in Global s.
C25_NoRollback ==
    /\ [][(status = "running" /\ status' = "err")
            => (globals' = globals /\ root_namespace' = root_namespace)]_vars
    /\ [][status = "err" => (globals' = globals /\ root_namespace' = root_namespace)]_vars
    /\ []((status = "err" /\ ops = FaultProgram)
            => /\ pc = 6
               /\ Bound(globals, NameX) = Integer(7)
               /\ Bound(globals, NameS) = Integer(1)
               /\ root_namespace = HostNamespace)

\* The interpret call has returned Err from the Pop at index 5.
C25_Witness ==
    /\ status = "err" /\ error = "Failed to Pop Value from Stack"
    /\ ops = FaultProgram /\ trace = InOrder(6)
    /\ Bound(globals, NameX) = Integer(7)
    /\ Bound(globals, NameS) = Integer(1)

\* The arithmetic or logical negation of a raw value
Negated(r) ==
    CASE r.tag = "Float" -> Float(-r.num)
      [] r.tag = "Integer" -> Integer(-r.num)
      [] r.tag = "Boolean" -> Boolean(~r.bool)
      [] OTHER -> r

\* C26: Negate pops one entry and pushes one. A Float or an Integer is
\* replaced by its arithmetic negation and a Boolean by its logical
\* negation, and execution continues at the next instruction; on a String
\* or a Reference the opcode fails.
C26_Negate ==
    [][(AtFetch /\ ops[pc + 1].op = "Negate" /\ stack # <<>>)
         => IF Top(stack).sv = "Raw" /\ Top(stack).raw.tag \in {"Float", "Integer", "Boolean"}
            THEN /\ status' = "running"
                 /\ pc' = pc + 1
                 /\ stack' = Append(Rest(stack), Raw(Negated(Top(stack).raw)))
            ELSE status' \in {"err", "panic"}]_vars

\* The operators that are not commutative
OrderedOps == {"Minus", "Divide", "LessThan", "Modulus"}

\* What `Push a; Push b; operator` pushes, for the raw values a and b
Ordered(name, a, b) ==
    CASE name = "Minus" -> Float(F32Round(as_float(b) - as_float(a)))
      [] name = "Divide" -> Float(F32Round(ExactQuotient(as_float(b), as_float(a))))
      [] name = "LessThan" -> Boolean(as_float(b) < as_float(a))
      [] name = "Modulus" -> Integer(remainder(as_integer(b), as_integer(a)))

\* C27: a binary operator takes its first pop, the entry on top, for the
\* left-hand side and its second pop for the right-hand side. After
\* `Push a; Push b` Minus pushes b - a, Divide pushes b / a, LessThan pushes
\* the Boolean b < a and Modulus pushes b rem a; after `Push 2; Push 6`
\* these are 4.0, 3.0, false and 0.
C27_FirstPopIsLeft ==
    /\ [][(AtFetch /\ ops[pc + 1].op \in OrderedOps /\ Len(stack) >= 2 /\ status' = "running")
            => LET b == as_raw(Top(stack), globals, locals)
                   a == as_raw(Top(Rest(stack)), globals, locals)
               IN  stack' = Append(Rest(Rest(stack)), Raw(Ordered(ops[pc + 1].op, a, b)))]_vars
    /\ []((status = "ok" /\ Len(ops) = 3 /\ ops[1] = PushInteger(2) /\ ops[2] = PushInteger(6)
             /\ ops[3].op \in OrderedOps)
            => stack = << Raw(CASE ops[3].op = "Minus" -> Float(4)
                                [] ops[3].op = "Divide" -> Float(3)
                                [] ops[3].op = "LessThan" -> Boolean(FALSE)
                                [] ops[3].op = "Modulus" -> Integer(0)) >>)

\* `Push -4; Push 6; Modulus` has returned with 6 rem -4 = 2 on the stack.
C27_Witness ==
    /\ status = "ok"
    /\ ops = <<PushInteger(-4), PushInteger(6), Op("Modulus")>>
    /\ stack = <<Raw(Integer(2))>>

\* C28: variable identifiers are case-insensitive. Names that differ in
\* letter case only have the same identifier, so the value assigned through
\* one spelling of a Global or of a Local is the value read through any
\* other: after 7 is assigned to one, the other plus 1 is 8.
C28_CaseInsensitiveNames ==
    /\ \A written \in CaseNames : \A read \in CaseNames :
          variable_name_to_identifier(written) = variable_name_to_identifier(read)
    /\ \A global \in BOOLEAN : \A written \in CaseNames : \A read \in CaseNames :
          (ops = CaseFixture(global, written, read) /\ pc >= 5)
            => /\ status \in {"running", "ok"}
               /\ as_raw(Variable(IF global THEN GlobalVar(read) ELSE LocalVar(read)),
                         globals, locals) = Integer(7)
               /\ status = "ok" => stack = <<Raw(Float(8))>>

\* 7 was assigned to Global Sum, and Global sUm plus 1 has given 8.
C28_Witness ==
    /\ ops = CaseFixture(TRUE, <<"S", "u", "m">>, <<"s", "U", "m">>)
    /\ status = "ok"
    /\ stack = <<Raw(Float(8))>>
    /\ DOMAIN globals = {<<"s", "u", "m">>}

\* C29: Assignment materializes the right-hand side before it takes the
\* write access to the globals. An Assignment whose target is a Global and
\* whose right-hand side is a Reference to a Global completes without a
\* fault and binds the target to the current value of the right-hand side.
C29_GlobalFromGlobal ==
    [][(/\ AtFetch
        /\ ops[pc + 1].op = "Assignment"
        /\ Len(stack) >= 2
        /\ IsGlobalEntry(Top(stack))
        /\ IsGlobalEntry(Top(Rest(stack))))
         => /\ status' = "running"
            /\ globals' = Insert(globals, Top(stack).ref.value,
                                 as_raw(Top(Rest(stack)), globals, locals))
            /\ stack' = Append(Rest(Rest(stack)), Top(stack))]_vars

\* C30: CallFunction is re-entrant. A CallFunction in the body of a
\* VirtualFunction is carried out as one in the sequence of the host is: it
\* faults only when the path is not registered or the binding fails, and
\* otherwise the binding is invoked or the body entered one level deeper.
C30_ReentrantCall ==
    [][(AtCall /\ frames # <<>> /\ Callee.ok /\ Callee.function.result = "")
         => /\ status' = "running"
            /\ Callee.function.kind = "Native"
                 => (pc' = pc + 1 /\ calls' = Append(calls, Invocation(Callee.function)))
            /\ Callee.function.kind = "Virtual"
                 => (pc' = 0 /\ ops' = Callee.function.instructions
                     /\ Len(frames') = Len(frames) + 1)]_vars

\* C31: PushVariable pushes a Reference and reads nothing; the variable is
\* read when an opcode consumes the Reference. A Reference to x that is
\* pushed before an Assignment of 7 to x and consumed after it yields 7,
\* whatever x held when the Reference was pushed: plus 1 it gives 8.
C31_ReferenceReadWhenConsumed ==
    /\ [][(AtFetch /\ ops[pc + 1].op = "PushVariable")
            => /\ stack' = Append(stack, Variable(ops[pc + 1].ref))
               /\ status' = "running" /\ pc' = pc + 1
               /\ globals' = globals /\ locals' = locals]_vars
    /\ [](\A ref \in References : \A written \in BOOLEAN :
            (ops = DeferredFixture(ref, written) /\ status = "ok")
               => stack = <<Raw(Float(8))>>)

\* Global x held 3 when the Reference was pushed and 7 when it was consumed.
C31_Witness ==
    /\ ops = DeferredFixture(GlobalVar(NameX), TRUE)
    /\ status = "ok"
    /\ stack = <<Raw(Float(8))>>
    /\ Bound(globals, NameX) = Integer(7)

\* C32: Assignment pops two entries and pushes one, the target Reference
\* itself, so the stack is one entry shorter; and the chained assignment
\* `Push 7; PushVariable b; Assignment; PushVariable a; Assignment` returns
\* with b and a bound to 7 and the Reference to a on the stack.
C32_AssignmentPushesTarget ==
    /\ [][(AtFetch /\ ops[pc + 1].op = "Assignment" /\ Len(stack) >= 2
             /\ Top(stack).sv = "Variable")
            => /\ status' = "running"
               /\ stack' = Append(Rest(Rest(stack)), Top(stack))]_vars
    /\ [](\A a \in ChainReferences : \A b \in ChainReferences \ {a} :
            (ops = ChainFixture(a, b) /\ pc >= Len(ops))
               => /\ status \in {"running", "ok"}
                  /\ stack = <<Variable(a)>>
                  /\ as_raw(Variable(a), globals, locals) = Integer(7)
                  /\ as_raw(Variable(b), globals, locals) = Integer(7))
    /\ [](\A a \in ChainReferences : \A b \in ChainReferences \ {a} :
            ops = ChainFixture(a, b) => status \in {"running", "ok"})

\* C33: lookup_function_cached stores the handle the tree walk resolves:
\* after a successful cached lookup of a path the function cache of the root
\* namespace has an entry for the hash of the path, and it is the function
\* the lookup returned.
C33_CachedLookupStores ==
    (outcome.op = "cached" /\ outcome.ok)
        => /\ PathBytes(outcome.path) \in DOMAIN root_namespace.function_cache
           /\ root_namespace.function_cache[PathBytes(outcome.path)] = outcome.function

\* The variants of RawValue that hold a value (the fifth, Variable, wraps a
\* VariableReference and is constructed nowhere)
RawTags == {"Float", "Integer", "String", "Boolean"}

\* Every entry of the map is a RawValue
HoldsValues(map) == \A id \in DOMAIN map : map[id].tag \in RawTags

\* C34: bindings hold values, never References. Every entry of the locals
\* and of the globals is a Float, Integer, String or Boolean; an Assignment
\* from a variable that completes binds the target to the value the source
\* has at that moment; and after `%b = 3; %a = %b; %b = 9` a still reads 3.
C34_BindingsHoldValues ==
    /\ [](HoldsValues(locals) /\ HoldsValues(globals))
    /\ [][(AtFetch /\ ops[pc + 1].op = "Assignment" /\ Len(stack) >= 2
             /\ Top(stack).sv = "Variable" /\ status' = "running")
            => as_raw(Top(stack), globals', locals')
                 = as_raw(Top(Rest(stack)), globals, locals)]_vars
    /\ [](\A a \in ChainReferences : \A b \in ChainReferences \ {a} :
            (ops = CopyFixture(a, b) /\ status = "ok")
               => /\ as_raw(Variable(a), globals, locals) = Integer(3)
                  /\ as_raw(Variable(b), globals, locals) = Integer(9))

\* The Local x was assigned from the Global s when s was 3, s was assigned 9
\* afterwards, and x still reads 3.
C34_Witness ==
    /\ ops = CopyFixture(LocalVar(NameX), GlobalVar(NameS))
    /\ status = "ok"
    /\ Bound(locals, NameX) = Integer(3)
    /\ Bound(globals, NameS) = Integer(9)

\* The map agrees with the map `before` at every identifier but id
SameBut(map, before, id) ==
    /\ DOMAIN before \ {id} = DOMAIN map \ {id}
    /\ \A other \in DOMAIN before \ {id} : map[other] = before[other]

\* C35: Assignment is the only opcode that changes a binding. Every step of
\* another opcode leaves the locals and the globals as they are; an
\* Assignment to a Local leaves the globals as they are and changes no
\* other local; an Assignment to a Global leaves the locals as they are and
\* changes no other global.
C35_OnlyAssignmentBinds ==
    /\ [][(AtFetch /\ ops[pc + 1].op # "Assignment")
            => (locals' = locals /\ globals' = globals)]_vars
    /\ [][(AtFetch /\ ops[pc + 1].op = "Assignment")
            => IF stack # <<>> /\ Top(stack).sv = "Variable"
               THEN LET target == Top(stack).ref
                    IN  IF target.scope = "Local"
                        THEN /\ globals' = globals
                             /\ SameBut(locals', locals, target.value)
                        ELSE /\ locals' = locals
                             /\ SameBut(globals', globals, target.value)
               ELSE locals' = locals /\ globals' = globals]_vars

\* The Global x has just been assigned 3: the Local x still holds 1 and the
\* Global s still holds 2.
C35_Witness ==
    /\ ops = ScopesFixture
    /\ pc = 11
    /\ status = "running"
    /\ Bound(globals, NameX) = Integer(3)
    /\ Bound(globals, NameS) = Integer(2)
    /\ Bound(locals, NameX) = Integer(1)

\* What a Reference reads in the current frame
Reads(ref) == as_raw(Variable(ref), globals, locals)

\* C36: the Local and the Global of one identifier are distinct bindings.
\* An Assignment to Local(x) leaves what Global(x) reads and an Assignment to
\* Global(x) leaves what Local(x) reads; and over interpret calls of the
\* sequence that assigns 1 to Local x and then 3 to Global x, the Global
\* reads "" while only the Local is bound, and in a later call the Local
\* reads "" and then 1 while the Global reads 3.
C36_ScopesDistinct ==
    /\ [][(AtFetch /\ ops[pc + 1].op = "Assignment" /\ stack # <<>>
             /\ Top(stack).sv = "Variable")
            => LET target == Top(stack).ref
                   twin == IF target.scope = "Local" THEN Global(target.value)
                           ELSE Local(target.value)
               IN  as_raw(Variable(twin), globals', locals') = Reads(twin)]_vars
    /\ []((ops = SameNameProgram /\ runs = 1 /\ pc \in 3..6)
            => (Reads(LocalVar(NameX)) = Integer(1)
                /\ Reads(GlobalVar(NameX)) = String(<<>>)))
    /\ []((ops = SameNameProgram /\ runs >= 2 /\ status = "running")
            => /\ Reads(GlobalVar(NameX)) = Integer(3)
               /\ Reads(LocalVar(NameX)) = IF pc <= 2 THEN String(<<>>) ELSE Integer(1))

\* In the second interpret call the Local x has just been assigned 1 and the
\* Global x still reads the 3 of the first call.
C36_Witness ==
    /\ ops = SameNameProgram /\ runs = 2 /\ pc = 3 /\ status = "running"
    /\ Reads(LocalVar(NameX)) = Integer(1)
    /\ Reads(GlobalVar(NameX)) = Integer(3)

\* The opcodes that push a literal or a Reference
PushOps == {"PushFloat", "PushInteger", "PushString", "PushVariable"}

\* The opcodes that pop two operands and push one result
TwoOperandOps == BinaryOps \cup {"Divide", "Modulus", "Concat"}

\* With `consumed` operands present the step completes, takes them off,
\* puts `produced` entries on, and leaves the entries below as they were
StackEffect(consumed, produced) ==
    Len(stack) >= consumed
        => /\ status' = "running"
           /\ Len(stack') = Len(stack) - consumed + produced
           /\ SubSeq(stack', 1, Len(stack) - consumed)
                = SubSeq(stack, 1, Len(stack) - consumed)

\* C37: each opcode changes the operand stack as its table row says when
\* enough operands are present. A push of a literal or of a Reference adds
\* one entry, Pop removes one, NOP and Jump leave the stack as it is, Not and
\* Negate replace the top entry, every binary operator removes two entries
\* and adds one, and the entries below the operands stay as they are.
C37_StackEffects ==
    [][AtFetch =>
         LET name == ops[pc + 1].op
         IN  CASE name \in PushOps -> StackEffect(0, 1)
               [] name = "Pop" -> StackEffect(1, 0)
               [] name = "NOP" -> stack' = stack /\ status' = "running"
               [] name = "Jump" -> stack' = stack
               [] name \in {"Not", "Negate"} -> StackEffect(1, 1)
               [] name \in TwoOperandOps -> StackEffect(2, 1)
               [] OTHER -> TRUE]_vars

\* What the operator of equality o answers for the raw operands a and b
Answer(o, a, b) ==
    CASE o = "Equals" -> as_float(a) = as_float(b)
      [] o = "NotEquals" -> ~(as_float(a) = as_float(b))
      [] o = "StringEquals" -> as_string(a) = as_string(b)
      [] o = "StringNotEqual" -> ~(as_string(a) = as_string(b))

\* The sequence has returned with the Boolean b alone on the stack
Leaves(sequence, b) ==
    (ops = sequence /\ status = "ok") => stack = <<Raw(Boolean(b))>>

\* C38: Equals and NotEquals compare the operands as floats, StringEquals
\* and StringNotEqual compare them as strings, and each negated operator
\* answers the negation of its positive. "abc" and "xyz" are Equals-true
\* and StringEquals-false, "12" and 12 are equal both ways, and Integer 1
\* and Boolean true are Equals-true and StringEquals-false.
C38_EqualityCoercions ==
    /\ [][(AtFetch /\ ops[pc + 1].op \in EqualityOps /\ Len(stack) >= 2)
            => stack' = Append(Rest(Rest(stack)),
                               Raw(Boolean(Answer(ops[pc + 1].op,
                                                  as_raw(Top(stack), globals, locals),
                                                  as_raw(Top(Rest(stack)), globals, locals)))))]_vars
    /\ [](/\ Leaves(WordsFixture("Equals"), TRUE)
          /\ Leaves(WordsFixture("NotEquals"), FALSE)
          /\ Leaves(WordsFixture("StringEquals"), FALSE)
          /\ Leaves(WordsFixture("StringNotEqual"), TRUE)
          /\ Leaves(NumeralFixture("Equals"), TRUE)
          /\ Leaves(NumeralFixture("NotEquals"), FALSE)
          /\ Leaves(NumeralFixture("StringEquals"), TRUE)
          /\ Leaves(NumeralFixture("StringNotEqual"), FALSE)
          /\ Leaves(TruthFixture("Equals"), TRUE)
          /\ Leaves(TruthFixture("NotEquals"), FALSE)
          /\ Leaves(TruthFixture("StringEquals"), FALSE)
          /\ Leaves(TruthFixture("StringNotEqual"), TRUE))

\* "abc" == "xyz" has returned with true
C38_Witness ==
    /\ ops = WordsFixture("Equals")
    /\ status = "ok"
    /\ stack = <<Raw(Boolean(TRUE))>>

\* The panic of the operator `%` of i32 on a zero divisor
RemainderByZero == "attempt to calculate the remainder with a divisor of zero"

\* C39: a Modulus whose right-hand operand coerces to the integer 0 is not
\* reported as an engine error. interpret returns no Err because of it, with
\* or without fault-checks and in both builds: the `%` of the host language
\* panics, and nothing is pushed.
C39_ZeroDivisorIsNoEngineError ==
    /\ [][(AtFetch /\ ops[pc + 1].op = "Modulus" /\ Len(stack) >= 2
             /\ as_integer(as_raw(Top(Rest(stack)), globals, locals)) = 0)
            => /\ status' # "err"
               /\ status' = "panic" /\ error' = RemainderByZero]_vars
    /\ [](\A divisor \in ZeroPushes :
            ops = ZeroDivisorFixture(divisor)
               => /\ status # "err"
                  /\ pc >= 3 => (status = "panic" /\ error = RemainderByZero))

\* 6 % "A" under fault-checks: the thread has panicked in `%`
C39_Witness ==
    /\ ops = ZeroDivisorFixture(PushString(<<"A">>))
    /\ "fault-checks" \in features
    /\ status = "panic"
    /\ error = RemainderByZero
    /\ stack = <<>>

====
